---- MODULE Spec2Model ----
(***************************************************************************)
(* The progress-gated curriculum and exam engine of the university portal: *)
(* the relational store (chapters, chapter_items, student_progress, exams, *)
(* exam_questions, exam_attempts) and the request handlers of app.py that  *)
(* read and write it.                                                      *)
(*                                                                         *)
(* Rows are records with named fields, as the handlers use them            *)
(* (it['id'], it.get('type'), exam['id']).  A table with a SERIAL key is a *)
(* sequence in insertion order; a table read only through a key (progress, *)
(* attempts) is a bag of rows, so that duplicate rows are visible.         *)
(***************************************************************************)
EXTENDS Integers, Sequences, FiniteSets, Bags, TLC

VARIABLES chapters, chapter_items, student_progress,
          exams, exam_questions, exam_attempts,
          connections, commit_log, lessons, calc, relock_due,
          attendance_sessions, attendance_marks,
          session, students, totp_enrolled, failed_attempts, now, audit

\* The attendance tables, and the state of the authentication layer: one
\* client's session, the student accounts, those with a TOTP secret, the rate-limit map,
\* the clock and what has happened in the login flow under way.
attendance == <<attendance_sessions, attendance_marks>>
auth == <<session, students, totp_enrolled, failed_attempts, now, audit>>

vars == <<chapters, chapter_items, student_progress,
          exams, exam_questions, exam_attempts, connections, commit_log,
          lessons, calc, relock_due, attendance, auth>>

(***************************************************************************)
(* Bounds of the model.                                                    *)
(***************************************************************************)
MaxChapters == 1
MaxItems == 2
MaxProgress == 2
MaxAttempts == 2
MaxTotalItems == 50
MaxLessons == 10
MaxExams == 2

Units == {1, 2}
Students == {1, 2}
Lecturers == {1}

\* A request's session: 'user_id' is in the session unless user_type is "none".
NoSession == [user_id |-> 0, user_type |-> "none"]
Sessions == {NoSession}
              \cup {[user_id |-> s, user_type |-> "student"] : s \in Students}
              \cup {[user_id |-> l, user_type |-> "lecturer"] : l \in Lecturers}

(***************************************************************************)
(* Python's float arithmetic, for progress_percentage.  A float is         *)
(* [hi, mid, lo, exp]: its 53-bit significand hi*2^40 + mid*2^20 + lo,     *)
(* with the top bit set, and its value significand * 2^(exp - 52).         *)
(***************************************************************************)
MantBits == 53
Limb == 1048576   \* 2^20

RECURSIVE Pow2(_)
Pow2(e) == IF e = 0 THEN 1 ELSE 2 * Pow2(e - 1)

RECURSIVE ShiftUp(_, _)
ShiftUp(num, den) == IF num >= den THEN 0 ELSE 1 + ShiftUp(2 * num, den)

\* significand + 1, renormalised when it reaches 2^53
SigInc(f) ==
    LET lo == f.lo + 1
        mid == f.mid + lo \div Limb
        hi == f.hi + mid \div Limb
    IN  IF hi = Pow2(MantBits - 40)
        THEN [hi |-> Pow2(MantBits - 41), mid |-> 0, lo |-> 0, exp |-> f.exp + 1]
        ELSE [hi |-> hi, mid |-> mid % Limb, lo |-> lo % Limb, exp |-> f.exp]

\* a / b for integers 0 < a <= b < 2^10: the quotient rounded to nearest, ties
\* to even, by long division in three steps of 12, 20 and 20 bits.
FloatDiv(a, b) ==
    LET k == ShiftUp(a, b)
        n1 == a * Pow2(k) * Pow2(MantBits - 41)
        n2 == (n1 % b) * Limb
        n3 == (n2 % b) * Limb
        rem == n3 % b
        x == [hi |-> n1 \div b, mid |-> n2 \div b, lo |-> n3 \div b, exp |-> 0 - k]
        up == 2 * rem > b \/ (2 * rem = b /\ x.lo % 2 = 1)
    IN  IF up THEN SigInc(x) ELSE x

\* x * 100.0: the exact product, 59 or 60 bits, rounded to nearest, ties to even.
FloatMul100(x) ==
    LET p0 == x.lo * 100
        p1 == x.mid * 100 + p0 \div Limb
        p2 == x.hi * 100 + p1 \div Limb
        q0 == p0 % Limb
        q1 == p1 % Limb
        d == IF p2 >= Pow2(19) THEN 7 ELSE 6       \* bits to drop
        low == q0 % Pow2(d)
        half == Pow2(d - 1)
        \* the product shifted right by d bits
        lo == q0 \div Pow2(d) + (q1 % Pow2(d)) * Pow2(20 - d)
        mid == q1 \div Pow2(d) + (p2 % Pow2(d)) * Pow2(20 - d)
        hi == p2 \div Pow2(d)
        y == [hi |-> hi, mid |-> mid, lo |-> lo, exp |-> x.exp + d]
        up == low > half \/ (low = half /\ lo % 2 = 1)
    IN  IF up THEN SigInc(y) ELSE y

\* int(x) for a float 0 <= x < 2^13: truncation.
FloatToInt(y) ==
    IF y.exp < 0 THEN 0 ELSE y.hi \div Pow2(MantBits - 41 - y.exp)

\* The percentage of the items still to do.
ProgressPercentageOfRemaining(completed_items, total_items) ==
    IF total_items = 0 THEN 0
    ELSE IF completed_items = total_items THEN 0
    ELSE FloatToInt(FloatMul100(FloatDiv(total_items - completed_items, total_items)))

\* int((completed_items / total_items) * 100) if total_items else 0
ProgressPercentage(completed_items, total_items) ==
    IF total_items = 0 THEN 0
    ELSE IF completed_items = 0 THEN 0
    ELSE FloatToInt(FloatMul100(FloatDiv(completed_items, total_items)))

(***************************************************************************)
(* The store's read operations (database.py).                              *)
(***************************************************************************)
\* ORDER BY order_index: ascending.  The statement names no second key, so the
\* engine is free in the order of rows of equal order_index (OrderedBy below
\* gives every such result); the counts and flags the handlers compute do not
\* depend on it, and this result has them in table order.
RECURSIVE InsertSorted(_, _)
InsertSorted(row, sorted) ==
    IF sorted = <<>> THEN <<row>>
    ELSE IF row.order_index < sorted[1].order_index
         THEN <<row>> \o sorted
         ELSE <<sorted[1]>> \o InsertSorted(row, Tail(sorted))

RECURSIVE SortByOrderIndex(_)
SortByOrderIndex(rows) ==
    IF rows = <<>> THEN <<>>
    ELSE InsertSorted(rows[Len(rows)], SortByOrderIndex(SubSeq(rows, 1, Len(rows) - 1)))

\* SELECT * FROM chapters WHERE unit_id = %s ORDER BY order_index
get_unit_chapters(unit_id) ==
    SortByOrderIndex(SelectSeq(chapters, LAMBDA ch : ch.unit_id = unit_id))

\* SELECT * FROM chapter_items WHERE chapter_id = %s ORDER BY order_index
get_chapter_items(chapter_id) ==
    SortByOrderIndex(SelectSeq(chapter_items, LAMBDA it : it.chapter_id = chapter_id))

\* The rows of a unit's progress that belong to one student.
ProgressRows(table, student_id, unit_id) ==
    {r \in BagToSet(table) : r.student_id = student_id /\ r.unit_id = unit_id}

\* SELECT item_id, completed ... WHERE student_id = %s AND unit_id = %s, folded
\* into a dict item_id -> completed.
ProgressDict(table, student_id, unit_id) ==
    LET rows == ProgressRows(table, student_id, unit_id)
    IN  [i \in {r.item_id : r \in rows} |->
            (CHOOSE r \in rows : r.item_id = i).completed]

get_student_progress(student_id, unit_id) ==
    ProgressDict(student_progress, student_id, unit_id)

\* progress_data.get(item_id, False)
DictGet(dict, key) == IF key \in DOMAIN dict THEN dict[key] ELSE FALSE

\* SELECT * FROM exams WHERE unit_id = %s; fetchone().  The dict returned has
\* the keys id, unit_id, title, ..., is_published and no key item_id.
NoExam == [id |-> 0]
get_exam_by_unit(unit_id) ==
    LET rows == SelectSeq(exams, LAMBDA e : e.unit_id = unit_id)
    IN  IF rows = <<>> THEN NoExam
        ELSE [id |-> rows[1].id, unit_id |-> rows[1].unit_id,
              total_marks |-> rows[1].total_marks]

\* SELECT * FROM exam_questions WHERE exam_id = %s ORDER BY order_index
get_exam_questions(exam_id) ==
    SortByOrderIndex(SelectSeq(exam_questions, LAMBDA q : q.exam_id = exam_id))

\* The getters with their except branches: when the query raises (store_ok is
\* FALSE) they print the error and return [] or {}.
get_unit_chapters_or_default(unit_id, store_ok) ==
    IF store_ok THEN get_unit_chapters(unit_id) ELSE <<>>

get_chapter_items_or_default(chapter_id, store_ok) ==
    IF store_ok THEN get_chapter_items(chapter_id) ELSE <<>>

get_student_progress_or_default(student_id, unit_id, store_ok) ==
    IF store_ok THEN get_student_progress(student_id, unit_id) ELSE << >>

(***************************************************************************)
(* The store's write operations (database.py).  Each returns the table it  *)
(* leaves and the value it returns; store_ok is FALSE when the statement   *)
(* or the commit raises.                                                   *)
(***************************************************************************)
SameKey(r, row) ==
    /\ r.student_id = row.student_id
    /\ r.unit_id = row.unit_id
    /\ r.item_id = row.item_id

\* An upsert that flips the flag of the row it finds.
UpsertToggle(table, row) ==
    LET others == {r \in BagToSet(table) : ~SameKey(r, row)}
        found == {r \in BagToSet(table) : SameKey(r, row)}
        new == IF found = {} THEN row
               ELSE [row EXCEPT !.completed = ~(CHOOSE r \in found : TRUE).completed]
    IN  [r \in others \cup {new} |-> IF r \in others THEN table[r] ELSE 1]

\* A plain INSERT into a table that declares no unique key.
InsertOnly(table, row) == table (+) SetToBag({row})

\* INSERT ... ON CONFLICT (student_id, unit_id, item_id) DO UPDATE SET completed
\* (INSERT OR REPLACE on SQLite): the row of that key, if any, is replaced.
Upsert(table, row) ==
    LET others == {r \in BagToSet(table) : ~SameKey(r, row)}
    IN  [r \in others \cup {row} |-> IF r \in others THEN table[r] ELSE 1]

\* update_student_progress whose except branch reports success.
update_student_progress_swallowing(table, student_id, unit_id, item_id, completed, store_ok) ==
    IF store_ok
    THEN [table |-> Upsert(table, [student_id |-> student_id, unit_id |-> unit_id,
                                   item_id |-> item_id, completed |-> completed]),
          result |-> TRUE]
    ELSE [table |-> table, result |-> TRUE]

update_student_progress(table, student_id, unit_id, item_id, completed, store_ok) ==
    IF store_ok
    THEN [table |-> Upsert(table, [student_id |-> student_id, unit_id |-> unit_id,
                                   item_id |-> item_id, completed |-> completed]),
          result |-> TRUE]
    ELSE [table |-> table, result |-> FALSE]

\* score = 50; total_marks = 100; INSERT INTO exam_attempts ...; on an
\* exception: return 0, 100.
save_exam_attempt_and_score(table, exam_id, student_id, answers, store_ok) ==
    LET score == 50
        total_marks == 100
    IN  IF store_ok
        THEN [table |-> table (+) SetToBag({[exam_id |-> exam_id,
                                             student_id |-> student_id,
                                             score |-> score,
                                             status |-> "submitted",
                                             answers |-> answers]}),
              score |-> score, total |-> total_marks]
        ELSE [table |-> table, score |-> 0, total |-> 100]

\* add_chapter: INSERT INTO chapters ... RETURNING id
add_chapter(unit_id, order_index) ==
    Append(chapters, [id |-> Len(chapters) + 1, unit_id |-> unit_id,
                      order_index |-> order_index])

\* add_chapter_item: order_index is {} for None (then COUNT(*) + 1) or {n};
\* INSERT INTO chapter_items ... RETURNING id
add_chapter_item(chapter_id, type, order_index) ==
    LET count == Len(SelectSeq(chapter_items, LAMBDA it : it.chapter_id = chapter_id))
        idx == IF order_index = {} THEN count + 1 ELSE CHOOSE n \in order_index : TRUE
    IN  Append(chapter_items, [id |-> Len(chapter_items) + 1, chapter_id |-> chapter_id,
                               type |-> type, order_index |-> idx])

(***************************************************************************)
(* The request handlers (app.py).  A read handler is an operator from the  *)
(* store and the request to the values it hands to its template.           *)
(***************************************************************************)
IsStudent(sess) == sess.user_type = "student"
IsStaff(sess) == sess.user_type \in {"lecturer", "admin"}

\* The inner loop without the test of the item's type: exam items are counted
\* like the others.
RECURSIVE ItemLoopCountingExams(_, _, _)
ItemLoopCountingExams(items, progress_data, acc) ==
    IF items = <<>> THEN acc
    ELSE LET it == items[1]
             completed == DictGet(progress_data, it.id)
             seen == IF it.type = "exam" THEN [acc EXCEPT !.has_exam_item = TRUE] ELSE acc
             next == [seen EXCEPT
                        !.total_items = @ + 1,
                        !.completed_items = IF completed THEN @ + 1 ELSE @,
                        !.chapter_completed = IF completed THEN @ ELSE FALSE]
         IN  ItemLoopCountingExams(Tail(items), progress_data, next)

\* The inner loop of learning_interface over one chapter's items; acc holds
\* total_items, completed_items, has_exam_item and chapter_completed.
RECURSIVE ItemLoop(_, _, _)
ItemLoop(items, progress_data, acc) ==
    IF items = <<>> THEN acc
    ELSE LET it == items[1]
             completed == DictGet(progress_data, it.id)
             next == IF it.type = "exam"
                     THEN [acc EXCEPT !.has_exam_item = TRUE]
                     ELSE [acc EXCEPT
                             !.total_items = @ + 1,
                             !.completed_items = IF completed THEN @ + 1 ELSE @,
                             !.chapter_completed = IF completed THEN @ ELSE FALSE]
         IN  ItemLoop(Tail(items), progress_data, next)

\* The outer loop of learning_interface over the chapters.
RECURSIVE ChapterLoop(_, _, _)
ChapterLoop(chs, progress_data, acc) ==
    IF chs = <<>> THEN acc
    ELSE LET items == get_chapter_items(chs[1].id)
             after == ItemLoop(items, progress_data,
                               [acc EXCEPT !.chapter_completed = TRUE])
             counted == IF after.chapter_completed /\ Len(items) > 0
                        THEN [after EXCEPT !.completed_chapters = @ + 1]
                        ELSE after
         IN  ChapterLoop(Tail(chs), progress_data, counted)

\* The chapters with their items, each item with its completed flag.
AnnotatedChapters(chs, progress_data) ==
    [k \in 1..Len(chs) |->
        LET items == get_chapter_items(chs[k].id)
        IN  [id |-> chs[k].id, title |-> "Chapter",
             items |-> [j \in 1..Len(items) |->
                          [id |-> items[j].id, chapter_id |-> items[j].chapter_id,
                           type |-> items[j].type,
                           completed |-> DictGet(progress_data, items[j].id)]]]]

\* The chapter synthesized when no exam item is persisted.
FinalExamination(progress_data) ==
    [id |-> -99999, title |-> "Final Examination",
     items |-> <<[id |-> -100000, chapter_id |-> -99999, type |-> "exam",
                  completed |-> DictGet(progress_data, -100000)]>>]

\* learning_interface without the has_exam_item test.
learning_interface_always_synthesizing(sess, unit_id) ==
    LET chs == get_unit_chapters(unit_id)
        is_student == IsStudent(sess)
        progress_data == IF is_student
                         THEN get_student_progress(sess.user_id, unit_id)
                         ELSE << >>
        acc == ChapterLoop(chs, progress_data,
                           [total_items |-> 0, completed_items |-> 0,
                            completed_chapters |-> 0, has_exam_item |-> FALSE,
                            chapter_completed |-> TRUE])
        tree == AnnotatedChapters(chs, progress_data)
        progress_percentage == ProgressPercentage(acc.completed_items, acc.total_items)
    IN  [chapters |-> Append(tree, FinalExamination(progress_data)),
         total_items |-> acc.total_items,
         completed_items |-> acc.completed_items,
         completed_chapters |-> acc.completed_chapters,
         progress_percentage |-> progress_percentage,
         exam_unlocked |-> (is_student /\ progress_percentage = 100)]

learning_interface(sess, unit_id) ==
    LET chs == get_unit_chapters(unit_id)
        is_student == IsStudent(sess)
        progress_data == IF is_student
                         THEN get_student_progress(sess.user_id, unit_id)
                         ELSE << >>
        acc == ChapterLoop(chs, progress_data,
                           [total_items |-> 0, completed_items |-> 0,
                            completed_chapters |-> 0, has_exam_item |-> FALSE,
                            chapter_completed |-> TRUE])
        tree == AnnotatedChapters(chs, progress_data)
        progress_percentage == ProgressPercentage(acc.completed_items, acc.total_items)
    IN  [chapters |-> IF acc.has_exam_item THEN tree
                      ELSE Append(tree, FinalExamination(progress_data)),
         total_items |-> acc.total_items,
         completed_items |-> acc.completed_items,
         completed_chapters |-> acc.completed_chapters,
         progress_percentage |-> progress_percentage,
         exam_unlocked |-> (is_student /\ progress_percentage = 100)]

\* The non-exam items of a unit, as exam_landing's generator expressions see them.
RECURSIVE NonExamItems(_)
NonExamItems(chs) ==
    IF chs = <<>> THEN <<>>
    ELSE SelectSeq(get_chapter_items(chs[1].id), LAMBDA it : it.type # "exam")
           \o NonExamItems(Tail(chs))

\* exam_landing without the total > 0 test.
exam_landing_done_equals_total(sess, unit_id) ==
    LET exam == get_exam_by_unit(unit_id)
        items == NonExamItems(get_unit_chapters(unit_id))
        progress_map == IF IsStudent(sess)
                        THEN get_student_progress(sess.user_id, unit_id)
                        ELSE << >>
        total == Len(items)
        done == Len(SelectSeq(items, LAMBDA it : DictGet(progress_map, it.id)))
    IN  IF exam = NoExam
        THEN [status |-> "redirect", unlocked |-> FALSE]
        ELSE [status |-> "rendered", unlocked |-> (done = total)]

exam_landing(sess, unit_id) ==
    LET exam == get_exam_by_unit(unit_id)
        items == NonExamItems(get_unit_chapters(unit_id))
        progress_map == IF IsStudent(sess)
                        THEN get_student_progress(sess.user_id, unit_id)
                        ELSE << >>
        total == Len(items)
        done == Len(SelectSeq(items, LAMBDA it : DictGet(progress_map, it.id)))
    IN  IF exam = NoExam
        THEN [status |-> "redirect", unlocked |-> FALSE]
        ELSE [status |-> "rendered", unlocked |-> (total > 0 /\ done = total)]

\* The gate expression of exam_landing reading the progress of session['user_id']
\* whatever the session's user_type.
landing_unlocked_for_any_user_type(sess, unit_id) ==
    LET items == NonExamItems(get_unit_chapters(unit_id))
        progress_map == get_student_progress(sess.user_id, unit_id)
        total == Len(items)
        done == Len(SelectSeq(items, LAMBDA it : DictGet(progress_map, it.id)))
    IN  total > 0 /\ done = total

\* unlocked = (total>0 and done==total), as exam_landing computes it from the
\* chapters, their items and the session's progress map.
landing_unlocked(sess, unit_id) ==
    LET items == NonExamItems(get_unit_chapters(unit_id))
        progress_map == IF IsStudent(sess)
                        THEN get_student_progress(sess.user_id, unit_id)
                        ELSE << >>
        total == Len(items)
        done == Len(SelectSeq(items, LAMBDA it : DictGet(progress_map, it.id)))
    IN  total > 0 /\ done = total

exam_start(sess, unit_id) ==
    LET exam == get_exam_by_unit(unit_id)
    IN  IF ~IsStudent(sess) THEN [status |-> "login", questions |-> <<>>]
        ELSE IF exam = NoExam THEN [status |-> "not_available", questions |-> <<>>]
        ELSE [status |-> "exam_take", questions |-> get_exam_questions(exam.id)]

\* attempt_ok: the INSERT of the attempt succeeds; progress_ok: the progress
\* upsert succeeds.  exam['item_id'] raises KeyError inside the try when the
\* exam dict has no such key, and the except clause prints and goes on.
exam_submit(sess, unit_id, answers, attempt_ok, progress_ok) ==
    LET exam == get_exam_by_unit(unit_id)
        saved == save_exam_attempt_and_score(exam_attempts, exam.id, sess.user_id,
                                             answers, attempt_ok)
        marked == IF "item_id" \in DOMAIN exam
                  THEN update_student_progress(student_progress, sess.user_id, unit_id,
                                               exam.item_id, TRUE, progress_ok).table
                  ELSE student_progress
    IN  IF ~IsStudent(sess)
        THEN [status |-> "login", exam_attempts |-> exam_attempts,
              student_progress |-> student_progress]
        ELSE IF exam = NoExam
        THEN [status |-> "not_available", exam_attempts |-> exam_attempts,
              student_progress |-> student_progress]
        ELSE [status |-> "exam_result", score |-> saved.score, total |-> saved.total,
              exam_attempts |-> saved.table, student_progress |-> marked]

\* update_progress without the test of the session's user_type.
update_progress_for_any_session(sess, unit_id, item_id, completed, store_ok) ==
    LET done == update_student_progress(student_progress, sess.user_id, unit_id,
                                        item_id, completed, store_ok)
    IN  IF sess = NoSession
        THEN [success |-> FALSE, student_progress |-> student_progress]
        ELSE [success |-> done.result, student_progress |-> done.table]

update_progress(sess, unit_id, item_id, completed, store_ok) ==
    LET done == update_student_progress(student_progress, sess.user_id, unit_id,
                                        item_id, completed, store_ok)
    IN  IF ~IsStudent(sess)
        THEN [success |-> FALSE, student_progress |-> student_progress]
        ELSE [success |-> done.result, student_progress |-> done.table]

MaxOrderIndex(rows) ==
    IF rows = <<>> THEN 0
    ELSE CHOOSE m \in {rows[k].order_index : k \in 1..Len(rows)} :
            \A k \in 1..Len(rows) : rows[k].order_index <= m

api_create_chapter(sess, unit_id) ==
    LET next_idx == MaxOrderIndex(get_unit_chapters(unit_id)) + 1
    IN  IF ~IsStaff(sess) THEN [ok |-> FALSE, chapters |-> chapters]
        ELSE [ok |-> TRUE, chapters |-> add_chapter(unit_id, next_idx)]

ApiItemTypes == {"lesson", "quiz", "assignment"}

api_create_item(sess, unit_id, chapter_id, item_type) ==
    LET next_idx == MaxOrderIndex(get_chapter_items(chapter_id)) + 1
    IN  IF ~IsStaff(sess) \/ chapter_id = 0 \/ item_type \notin ApiItemTypes
        THEN [ok |-> FALSE, chapter_items |-> chapter_items]
        ELSE [ok |-> TRUE,
              chapter_items |-> add_chapter_item(chapter_id, item_type, {next_idx})]

create_chapter_item(sess, unit_id, chapter_id, item_type) ==
    IF ~IsStaff(sess) THEN [ok |-> FALSE, chapter_items |-> chapter_items]
    ELSE [ok |-> TRUE, chapter_items |-> add_chapter_item(chapter_id, item_type, {})]

(***************************************************************************)
(* The initial store and the requests.                                      *)
(*                                                                         *)
(* No code under src/ inserts into exams or exam_questions (db.create_exam *)
(* and db.add_exam_questions are called by app.py and defined nowhere), so *)
(* the exam is part of the initial store: unit 1 has an exam with two      *)
(* 5-point mcq questions whose keys are A and B, and unit 2 has none.      *)
(***************************************************************************)
SeededExams == <<[id |-> 1, unit_id |-> 1, total_marks |-> 100]>>
SeededQuestions ==
    <<[id |-> 1, exam_id |-> 1, type |-> "mcq", points |-> 5, correct |-> "A",
       order_index |-> 1],
      [id |-> 2, exam_id |-> 1, type |-> "mcq", points |-> 5, correct |-> "B",
       order_index |-> 2]>>

\* The inputs of the requests.
ChapterIdInputs == {1}
ItemIdInputs == {1, 2}
ItemTypeInputs == {"lesson", "exam"}
AnswerInputs == {(1 :> "A") @@ (2 :> "C"), (1 :> "A")}

\* The concurrent callers of update_student_progress, each on a connection of
\* its own; outside the concurrent scenario no call is in flight.
Callers == {1, 2}
NoConnections == [p \in Callers |-> [pc |-> "none", completed |-> FALSE, found |-> FALSE]]

\* The number of rows of the lessons table per unit, and the counts one
\* rendering of learning_interface works on; both idle outside their scenarios.
NoLessons == [u \in Units |-> 0]
NoCalc == [completed_items |-> 0, total_items |-> 0, progress_percentage |-> 0]

\* No attendance session has been opened.
AttendanceIdle ==
    /\ attendance_sessions = <<>>
    /\ attendance_marks = EmptyBag

\* The session of a client that has not logged in: no key is set.
NoVerification == [admin_id |-> 0, verification_code |-> 0, attempts |-> 0, created_at |-> 0]
EmptySession ==
    [user_id |-> 0, user_type |-> "none", pre_2fa_user |-> 0,
     google_user |-> FALSE, pending_totp_secret |-> FALSE, admin_id |-> 0,
     admin_verification |-> NoVerification]
NoAudit ==
    [password_ok |-> FALSE, totp_ok |-> FALSE, guesses |-> 0, limit_hit |-> FALSE,
     refused |-> {}]

\* Nobody is logging in.
AuthIdle ==
    /\ session = EmptySession
    /\ students = Students
    /\ totp_enrolled = {}
    /\ failed_attempts = << >>
    /\ now = 0
    /\ audit = NoAudit

Init ==
    /\ chapters = <<>>
    /\ chapter_items = <<>>
    /\ student_progress = EmptyBag
    /\ exams = SeededExams
    /\ exam_questions = SeededQuestions
    /\ exam_attempts = EmptyBag
    /\ connections = NoConnections
    /\ commit_log = <<>>
    /\ lessons = NoLessons
    /\ calc = NoCalc
    /\ relock_due = {}
    /\ AttendanceIdle
    /\ AuthIdle

ApiCreateChapter ==
    \E sess \in Sessions, unit_id \in Units :
        /\ Len(chapters) < MaxChapters
        /\ chapters' = api_create_chapter(sess, unit_id).chapters
        /\ UNCHANGED <<connections, commit_log, lessons, calc, relock_due,
                       chapter_items, student_progress, exams, exam_questions,
                       exam_attempts, attendance, auth>>

ApiCreateItem ==
    \E sess \in Sessions, unit_id \in Units, chapter_id \in ChapterIdInputs,
       item_type \in ItemTypeInputs :
        /\ Len(chapter_items) < MaxItems
        /\ chapter_items' = api_create_item(sess, unit_id, chapter_id, item_type).chapter_items
        /\ UNCHANGED <<connections, commit_log, lessons, calc, relock_due,
                       chapters, student_progress, exams, exam_questions, exam_attempts, attendance, auth>>

CreateChapterItem ==
    \E sess \in Sessions, unit_id \in Units, chapter_id \in ChapterIdInputs,
       item_type \in ItemTypeInputs :
        /\ Len(chapter_items) < MaxItems
        /\ chapter_items' = create_chapter_item(sess, unit_id, chapter_id, item_type).chapter_items
        /\ UNCHANGED <<connections, commit_log, lessons, calc, relock_due,
                       chapters, student_progress, exams, exam_questions, exam_attempts, attendance, auth>>

UpdateProgress ==
    \E sess \in Sessions, unit_id \in Units, item_id \in ItemIdInputs,
       completed \in BOOLEAN, store_ok \in BOOLEAN :
        LET r == update_progress(sess, unit_id, item_id, completed, store_ok)
        IN  /\ BagCardinality(r.student_progress) <= MaxProgress
            /\ student_progress' = r.student_progress
            /\ UNCHANGED <<connections, commit_log, lessons, calc, relock_due,
                           chapters, chapter_items, exams, exam_questions, exam_attempts, attendance, auth>>

\* The read handlers leave the store as it is.
LearningInterface ==
    \E sess \in Sessions, unit_id \in Units :
        /\ learning_interface(sess, unit_id).total_items >= 0
        /\ UNCHANGED vars

ExamLanding ==
    \E sess \in Sessions, unit_id \in Units :
        /\ exam_landing(sess, unit_id).status \in {"redirect", "rendered"}
        /\ UNCHANGED vars

ExamStart ==
    \E sess \in Sessions, unit_id \in Units :
        /\ exam_start(sess, unit_id).status \in {"login", "not_available", "exam_take"}
        /\ UNCHANGED vars

ExamSubmit ==
    \E sess \in Sessions, unit_id \in Units, answers \in AnswerInputs,
       attempt_ok \in BOOLEAN, progress_ok \in BOOLEAN :
        LET r == exam_submit(sess, unit_id, answers, attempt_ok, progress_ok)
        IN  /\ BagCardinality(r.exam_attempts) <= MaxAttempts
            /\ BagCardinality(r.student_progress) <= MaxProgress
            /\ exam_attempts' = r.exam_attempts
            /\ student_progress' = r.student_progress
            /\ UNCHANGED <<connections, commit_log, lessons, calc, relock_due,
                           chapters, chapter_items, exams, exam_questions, attendance, auth>>

\* The curriculum, the progress records and the gate.
Next ==
    \/ ApiCreateChapter
    \/ ApiCreateItem
    \/ CreateChapterItem
    \/ UpdateProgress
    \/ LearningInterface
    \/ ExamLanding

Spec == Init /\ [][Next]_vars

\* Taking the exam, in a unit that holds one chapter with one lesson.
InitExam ==
    /\ chapters = <<[id |-> 1, unit_id |-> 1, order_index |-> 1]>>
    /\ chapter_items = <<[id |-> 1, chapter_id |-> 1, type |-> "lesson",
                          order_index |-> 1]>>
    /\ student_progress = EmptyBag
    /\ exams = SeededExams
    /\ exam_questions = SeededQuestions
    /\ exam_attempts = EmptyBag
    /\ connections = NoConnections
    /\ commit_log = <<>>
    /\ lessons = NoLessons
    /\ calc = NoCalc
    /\ relock_due = {}
    /\ AttendanceIdle
    /\ AuthIdle

NextExam ==
    \/ UpdateProgress
    \/ ExamLanding
    \/ ExamStart
    \/ ExamSubmit

SpecExam == InitExam /\ [][NextExam]_vars

(***************************************************************************)
(* Two calls of update_student_progress for the same (student, unit, item) *)
(* at once, each on its own connection.  A call executes its statement and *)
(* then commits.  The statement inserts, or updates the row of its key; the *)
(* unique key of student_progress lets one uncommitted write of a key      *)
(* stand at a time, so the statement of the other call waits for the       *)
(* commit.  A statement that raises makes the call return False.           *)
(***************************************************************************)
\* The rows of the progress table with the key (student, unit, item).
KeyRows(table, student_id, unit_id, item_id) ==
    {r \in BagToSet(table) :
        r.student_id = student_id /\ r.unit_id = unit_id /\ r.item_id = item_id}

\* The triple both calls write.
SharedRow(completed) ==
    [student_id |-> 1, unit_id |-> 1, item_id |-> 1, completed |-> completed]

OtherRow == [student_id |-> 2, unit_id |-> 1, item_id |-> 1, completed |-> TRUE]

StoredBefore ==
    {EmptyBag, SetToBag({SharedRow(TRUE)}), SetToBag({SharedRow(FALSE)}),
     SetToBag({OtherRow}), SetToBag({OtherRow, SharedRow(TRUE)})}

InitConc ==
    /\ chapters = <<[id |-> 1, unit_id |-> 1, order_index |-> 1]>>
    /\ chapter_items = <<[id |-> 1, chapter_id |-> 1, type |-> "lesson",
                          order_index |-> 1]>>
    /\ student_progress \in StoredBefore
    /\ exams = SeededExams
    /\ exam_questions = SeededQuestions
    /\ exam_attempts = EmptyBag
    /\ connections \in [Callers -> {[pc |-> "called", completed |-> c, found |-> FALSE] :
                                       c \in BOOLEAN}]
    /\ commit_log = <<>>
    /\ lessons = NoLessons
    /\ calc = NoCalc
    /\ relock_due = {}
    /\ AttendanceIdle
    /\ AuthIdle

\* The same statement on a table without the unique key: nothing makes the
\* second writer wait.
ExecuteStatementWithoutKey(p) ==
    /\ connections[p].pc = "called"
    /\ connections' = [connections EXCEPT
                         ![p].pc = "executed",
                         ![p].found = (KeyRows(student_progress, 1, 1, 1) # {})]
    /\ UNCHANGED <<chapters, chapter_items, student_progress, exams, exam_questions,
                   exam_attempts, commit_log, lessons, calc, relock_due, attendance, auth>>

\* cursor.execute(INSERT ... ON CONFLICT (student_id, unit_id, item_id) DO UPDATE)
ExecuteStatement(p) ==
    /\ connections[p].pc = "called"
    /\ \A q \in Callers \ {p} : connections[q].pc # "executed"
    /\ connections' = [connections EXCEPT
                         ![p].pc = "executed",
                         ![p].found = (KeyRows(student_progress, 1, 1, 1) # {})]
    /\ UNCHANGED <<chapters, chapter_items, student_progress, exams, exam_questions,
                   exam_attempts, commit_log, lessons, calc, relock_due, attendance, auth>>

\* except Exception: return False
StatementRaises(p) ==
    /\ connections[p].pc = "called"
    /\ connections' = [connections EXCEPT ![p].pc = "returned_false"]
    /\ UNCHANGED <<chapters, chapter_items, student_progress, exams, exam_questions,
                   exam_attempts, commit_log, lessons, calc, relock_due, attendance, auth>>

\* conn.commit(); return True
Commit(p) ==
    /\ connections[p].pc = "executed"
    /\ student_progress' =
         LET row == SharedRow(connections[p].completed)
             others == {r \in BagToSet(student_progress) : ~SameKey(r, row)}
         IN  IF connections[p].found
             THEN [r \in others \cup {row} |->
                     IF r \in others THEN student_progress[r] ELSE 1]
             ELSE student_progress (+) SetToBag({row})
    /\ connections' = [connections EXCEPT ![p].pc = "returned_true"]
    /\ commit_log' = Append(commit_log, p)
    /\ UNCHANGED <<chapters, chapter_items, exams, exam_questions, exam_attempts,
                   lessons, calc, relock_due, attendance, auth>>

NextConc ==
    \/ \E p \in Callers : ExecuteStatement(p)
    \/ \E p \in Callers : StatementRaises(p)
    \/ \E p \in Callers : Commit(p)

SpecConc == InitConc /\ [][NextConc]_vars

(***************************************************************************)
(* The percentage of learning_interface on its own: a unit of total_items  *)
(* non-exam items, of which a student marks one more, or one fewer,        *)
(* complete between two renderings.                                        *)
(***************************************************************************)
Rendered(completed_items, total_items) ==
    [completed_items |-> completed_items, total_items |-> total_items,
     progress_percentage |-> ProgressPercentage(completed_items, total_items)]

InitPct ==
    /\ chapters = <<>>
    /\ chapter_items = <<>>
    /\ student_progress = EmptyBag
    /\ exams = SeededExams
    /\ exam_questions = SeededQuestions
    /\ exam_attempts = EmptyBag
    /\ connections = NoConnections
    /\ commit_log = <<>>
    /\ lessons = NoLessons
    /\ calc \in {Rendered(0, t) : t \in 0..MaxTotalItems}
    /\ relock_due = {}
    /\ AttendanceIdle
    /\ AuthIdle

\* update_progress(item, True) on an uncompleted item, then learning_interface.
MarkOneComplete ==
    /\ calc.completed_items < calc.total_items
    /\ calc' = Rendered(calc.completed_items + 1, calc.total_items)
    /\ UNCHANGED <<chapters, chapter_items, student_progress, exams, exam_questions,
                   exam_attempts, connections, commit_log, lessons, relock_due, attendance, auth>>

\* update_progress(item, False) on a completed item, then learning_interface.
MarkOneIncomplete ==
    /\ calc.completed_items > 0
    /\ calc' = Rendered(calc.completed_items - 1, calc.total_items)
    /\ UNCHANGED <<chapters, chapter_items, student_progress, exams, exam_questions,
                   exam_attempts, connections, commit_log, lessons, relock_due, attendance, auth>>

NextPct ==
    \/ MarkOneComplete
    \/ MarkOneIncomplete

SpecPct == InitPct /\ [][NextPct]_vars

(***************************************************************************)
(* Exam creation.  app.py calls db.create_exam, which returns the pair     *)
(* (exam_id, exam_item_id), and db.add_exam_questions; no file under src/  *)
(* defines them.  create_exam is therefore taken from the specification:   *)
(* it inserts an Exam row and an exam Item row together, or nothing when   *)
(* the store fails.  The specification does not say which chapter holds    *)
(* the item: the row carries chapter_id 0.  Requests carry no questions.   *)
(***************************************************************************)
ExamThreshold == 10

create_exam(unit_id, store_ok) ==
    IF store_ok
    THEN [raised |-> FALSE,
          exams |-> Append(exams, [id |-> Len(exams) + 1, unit_id |-> unit_id,
                                   total_marks |-> 100]),
          chapter_items |-> Append(chapter_items,
                                   [id |-> Len(chapter_items) + 1, chapter_id |-> 0,
                                    type |-> "exam", order_index |-> 1])]
    ELSE [raised |-> TRUE, exams |-> exams, chapter_items |-> chapter_items]

\* SELECT COUNT(*) FROM lessons WHERE unit_id = %s
count_lessons_in_unit(unit_id) == lessons[unit_id]

\* INSERT INTO lessons (unit_id, ...)
add_lesson(sess, unit_id) ==
    IF ~IsStaff(sess) THEN lessons
    ELSE [lessons EXCEPT ![unit_id] = @ + 1]

\* POST /unit/<unit_id>/exam/create
exam_create(sess, unit_id, store_ok) ==
    LET lesson_count == count_lessons_in_unit(unit_id)
        can_create == lesson_count >= ExamThreshold
        made == create_exam(unit_id, store_ok)
    IN  IF ~IsStaff(sess)
        THEN [status |-> "login", exams |-> exams, chapter_items |-> chapter_items]
        ELSE IF ~can_create
        THEN [status |-> "add_lessons_first", exams |-> exams,
              chapter_items |-> chapter_items]
        ELSE IF made.raised
        THEN [status |-> "error", exams |-> exams, chapter_items |-> chapter_items]
        ELSE [status |-> "created", exams |-> made.exams,
              chapter_items |-> made.chapter_items]

\* POST /api/unit/<unit_id>/exam
api_create_exam(sess, unit_id, store_ok) ==
    LET made == create_exam(unit_id, store_ok)
    IN  IF ~IsStaff(sess)
        THEN [ok |-> FALSE, exams |-> exams, chapter_items |-> chapter_items]
        ELSE IF made.raised
        THEN [ok |-> FALSE, exams |-> exams, chapter_items |-> chapter_items]
        ELSE [ok |-> TRUE, exams |-> made.exams, chapter_items |-> made.chapter_items]

\* GET /unit/<unit_id>/add_exam
add_exam_page(sess, unit_id) ==
    IF ~IsStaff(sess) THEN [status |-> "login", can_create |-> FALSE]
    ELSE IF get_exam_by_unit(unit_id) # NoExam
    THEN [status |-> "already_exists", can_create |-> FALSE]
    ELSE [status |-> "rendered",
          can_create |-> (Len(get_unit_chapters(unit_id)) >= ExamThreshold)]

InitCreate ==
    /\ chapters = <<>>
    /\ chapter_items = <<>>
    /\ student_progress = EmptyBag
    /\ exams = <<>>
    /\ exam_questions = <<>>
    /\ exam_attempts = EmptyBag
    /\ connections = NoConnections
    /\ commit_log = <<>>
    /\ lessons = NoLessons
    /\ calc = NoCalc
    /\ relock_due = {}
    /\ AttendanceIdle
    /\ AuthIdle

AddLesson ==
    \E sess \in Sessions, unit_id \in Units :
        /\ lessons[unit_id] < MaxLessons
        /\ lessons' = add_lesson(sess, unit_id)
        /\ UNCHANGED <<chapters, chapter_items, student_progress, exams, exam_questions,
                       exam_attempts, connections, commit_log, calc, relock_due, attendance, auth>>

ExamCreate ==
    \E sess \in Sessions, unit_id \in Units, store_ok \in BOOLEAN :
        LET r == exam_create(sess, unit_id, store_ok)
        IN  /\ Len(r.exams) <= MaxExams
            /\ exams' = r.exams
            /\ chapter_items' = r.chapter_items
            /\ UNCHANGED <<chapters, student_progress, exam_questions, exam_attempts,
                           connections, commit_log, lessons, calc, relock_due, attendance, auth>>

ApiCreateExam ==
    \E sess \in Sessions, unit_id \in Units, store_ok \in BOOLEAN :
        LET r == api_create_exam(sess, unit_id, store_ok)
        IN  /\ Len(r.exams) <= MaxExams
            /\ exams' = r.exams
            /\ chapter_items' = r.chapter_items
            /\ UNCHANGED <<chapters, student_progress, exam_questions, exam_attempts,
                           connections, commit_log, lessons, calc, relock_due, attendance, auth>>

AddExamPage ==
    \E sess \in Sessions, unit_id \in Units :
        /\ add_exam_page(sess, unit_id).status \in {"login", "already_exists", "rendered"}
        /\ UNCHANGED vars

NextCreate ==
    \/ AddLesson
    \/ ExamCreate
    \/ ApiCreateExam
    \/ AddExamPage

SpecCreate == InitCreate /\ [][NextCreate]_vars

(***************************************************************************)
(* Two calls of save_exam_attempt_and_score for the same (exam, student)   *)
(* at once, each on its own connection: exam 1, student 1.  A call         *)
(* executes its INSERT and then commits.  exam_attempts declares no unique *)
(* key on (exam_id, student_id), only the index idx_attempt_exam_student,  *)
(* so no statement waits for another.  A call whose statement raises       *)
(* returns 0, 100.                                                         *)
(***************************************************************************)
AttemptRow(student_id, answers) ==
    [exam_id |-> 1, student_id |-> student_id, score |-> 50, status |-> "submitted",
     answers |-> answers]

AttemptsBefore ==
    {EmptyBag} \cup {SetToBag({AttemptRow(s, a)}) : s \in Students, a \in AnswerInputs}

InitSubmit ==
    /\ chapters = <<[id |-> 1, unit_id |-> 1, order_index |-> 1]>>
    /\ chapter_items = <<[id |-> 1, chapter_id |-> 1, type |-> "lesson",
                          order_index |-> 1]>>
    /\ student_progress = EmptyBag
    /\ exams = SeededExams
    /\ exam_questions = SeededQuestions
    /\ exam_attempts \in AttemptsBefore
    /\ connections \in [Callers -> {[pc |-> "called", answers |-> a] : a \in AnswerInputs}]
    /\ commit_log = <<>>
    /\ lessons = NoLessons
    /\ calc = NoCalc
    /\ relock_due = {}
    /\ AttendanceIdle
    /\ AuthIdle

\* cursor.execute(INSERT INTO exam_attempts ...)
InsertAttempt(p) ==
    /\ connections[p].pc = "called"
    /\ connections' = [connections EXCEPT ![p].pc = "executed"]
    /\ UNCHANGED <<chapters, chapter_items, student_progress, exams, exam_questions,
                   exam_attempts, commit_log, lessons, calc, relock_due, attendance, auth>>

\* except Exception: return 0, 100
InsertRaises(p) ==
    /\ connections[p].pc = "called"
    /\ connections' = [connections EXCEPT ![p].pc = "returned_0_100"]
    /\ UNCHANGED <<chapters, chapter_items, student_progress, exams, exam_questions,
                   exam_attempts, commit_log, lessons, calc, relock_due, attendance, auth>>

\* conn.commit(); return score, total_marks
CommitAttempt(p) ==
    /\ connections[p].pc = "executed"
    /\ exam_attempts' = exam_attempts (+) SetToBag({AttemptRow(1, connections[p].answers)})
    /\ connections' = [connections EXCEPT ![p].pc = "returned_50_100"]
    /\ commit_log' = Append(commit_log, p)
    /\ UNCHANGED <<chapters, chapter_items, student_progress, exams, exam_questions,
                   lessons, calc, relock_due, attendance, auth>>

NextSubmit ==
    \/ \E p \in Callers : InsertAttempt(p)
    \/ \E p \in Callers : InsertRaises(p)
    \/ \E p \in Callers : CommitAttempt(p)

SpecSubmit == InitSubmit /\ [][NextSubmit]_vars

(***************************************************************************)
(* The order in which chapters and items reach the progress computation.   *)
(* Chapters come from create_chapter, which leaves add_chapter's default   *)
(* order_index = 1, and from api_create_chapter, which passes max + 1.     *)
(* A query returns the rows of its WHERE clause sorted by order_index, the *)
(* rows of equal order_index in an order of the engine's choosing;         *)
(* learning_interface then sorts the list again with list.sort, which is   *)
(* stable.                                                                 *)
(***************************************************************************)
MaxOrdered == 3

\* POST /unit/<unit_id>/chapter/create
create_chapter(sess, unit_id) ==
    IF ~IsStaff(sess) THEN [ok |-> FALSE, chapters |-> chapters]
    ELSE [ok |-> TRUE, chapters |-> add_chapter(unit_id, 1)]

\* Every sequence that holds each of the rows once.
Orderings(rows) ==
    {s \in [1..Len(rows) -> {rows[k] : k \in 1..Len(rows)}] :
        \A i, j \in 1..Len(rows) : i # j => s[i] # s[j]}

\* The results ORDER BY order_index can give for the rows selected.
OrderedBy(rows) ==
    {s \in Orderings(rows) :
        \A i, j \in 1..Len(rows) : i < j => s[i].order_index <= s[j].order_index}

\* chapters = db.get_unit_chapters(unit_id) or []; chapters.sort(key=order_index)
chapters_delivered(unit_id) ==
    {SortByOrderIndex(fetched) :
        fetched \in OrderedBy(SelectSeq(chapters, LAMBDA ch : ch.unit_id = unit_id))}

\* items = db.get_chapter_items(ch['id']) or []; items.sort(key=order_index)
items_delivered(chapter_id) ==
    {SortByOrderIndex(fetched) :
        fetched \in OrderedBy(SelectSeq(chapter_items, LAMBDA it : it.chapter_id = chapter_id))}

CreateChapter ==
    \E sess \in Sessions, unit_id \in Units :
        /\ Len(chapters) < MaxOrdered
        /\ chapters' = create_chapter(sess, unit_id).chapters
        /\ UNCHANGED <<chapter_items, student_progress, exams, exam_questions,
                       exam_attempts, connections, commit_log, lessons, calc, relock_due, attendance, auth>>

\* api_create_chapter on a unit that may hold chapters already.
ApiCreateNextChapter ==
    \E sess \in Sessions, unit_id \in Units :
        /\ Len(chapters) < MaxOrdered
        /\ chapters' = api_create_chapter(sess, unit_id).chapters
        /\ UNCHANGED <<chapter_items, student_progress, exams, exam_questions,
                       exam_attempts, connections, commit_log, lessons, calc, relock_due, attendance, auth>>

NextOrder ==
    \/ CreateChapter
    \/ ApiCreateNextChapter
    \/ ApiCreateItem
    \/ CreateChapterItem
    \/ LearningInterface

SpecOrder == Init /\ [][NextOrder]_vars

(***************************************************************************)
(* Attendance (database.py).  attendance_sessions is a sequence of rows    *)
(* [id, unit_id, is_open]; attendance_marks is a bag of rows               *)
(* [session_id, student_id] under UNIQUE(session_id, student_id).          *)
(*                                                                         *)
(* Each call runs on a connection of its own, as one transaction: its      *)
(* statements, then conn.commit().  With DATABASE_URL set the store is     *)
(* PostgreSQL at its default isolation: a statement sees the rows          *)
(* committed when it starts; an UPDATE locks the rows it changes until its *)
(* transaction ends, waits for a row another transaction has locked and    *)
(* then looks at that row again; what a transaction wrote is seen by the   *)
(* others once it has committed.                                           *)
(***************************************************************************)
MaxSessions == 2
MaxMarks == 2

SessionIdInputs == 1..(MaxSessions + 1)

IdleCall == [pc |-> "idle", unit_id |-> 0, session_id |-> 0, student_id |-> 0,
             targets |-> {}, found |-> FALSE]
NoCalls == [p \in Callers |-> IdleCall]

\* The ids of the committed sessions of a unit with is_open true.
OpenSessionIds(unit_id) ==
    {k \in 1..Len(attendance_sessions) :
        attendance_sessions[k].unit_id = unit_id /\ attendance_sessions[k].is_open}

\* The rows a call holds locked: those its UPDATE has changed.
Locked(p) ==
    IF connections[p].pc \in {"create_updated", "create_inserted", "close_updated"}
    THEN connections[p].targets ELSE {}

\* The creations under way.
Creating == {p \in Callers : connections[p].pc \in
                {"create_update", "create_updated", "create_inserted"}}

\* UPDATE attendance_sessions SET is_open = FALSE on the rows of ids.
CloseRows(ids) ==
    [k \in 1..Len(attendance_sessions) |->
        IF k \in ids THEN [attendance_sessions[k] EXCEPT !.is_open = FALSE]
        ELSE attendance_sessions[k]]

InitAttend ==
    /\ chapters = <<>>
    /\ chapter_items = <<>>
    /\ student_progress = EmptyBag
    /\ exams = SeededExams
    /\ exam_questions = SeededQuestions
    /\ exam_attempts = EmptyBag
    /\ connections = NoCalls
    /\ commit_log = <<>>
    /\ lessons = NoLessons
    /\ calc = NoCalc
    /\ relock_due = {}
    /\ AttendanceIdle
    /\ AuthIdle

\* create_attendance_session(unit_id, ...): the UPDATE starts and selects the
\* open sessions of the unit that are committed.
CreateSessionCall(p) ==
    \E unit_id \in Units :
        /\ connections[p].pc = "idle"
        /\ Len(attendance_sessions) + Cardinality(Creating) < MaxSessions
        /\ connections' = [connections EXCEPT
                             ![p] = [IdleCall EXCEPT !.pc = "create_update",
                                                     !.unit_id = unit_id,
                                                     !.targets = OpenSessionIds(unit_id)]]
        /\ UNCHANGED <<chapters, chapter_items, student_progress, exams, exam_questions,
                       exam_attempts, commit_log, lessons, calc, relock_due, attendance,
                       auth>>

\* The UPDATE gets the locks of its rows and closes those still open.
CreateSessionUpdate(p) ==
    /\ connections[p].pc = "create_update"
    /\ \A q \in Callers \ {p} : Locked(q) \cap connections[p].targets = {}
    /\ connections' = [connections EXCEPT
                         ![p].pc = "create_updated",
                         ![p].targets = {k \in connections[p].targets :
                                            attendance_sessions[k].is_open}]
    /\ UNCHANGED <<chapters, chapter_items, student_progress, exams, exam_questions,
                   exam_attempts, commit_log, lessons, calc, relock_due, attendance, auth>>

\* INSERT INTO attendance_sessions (..., is_open) VALUES (..., TRUE)
CreateSessionInsert(p) ==
    /\ connections[p].pc = "create_updated"
    /\ connections' = [connections EXCEPT ![p].pc = "create_inserted"]
    /\ UNCHANGED <<chapters, chapter_items, student_progress, exams, exam_questions,
                   exam_attempts, commit_log, lessons, calc, relock_due, attendance, auth>>

\* conn.commit(); return sess_id
CreateSessionCommit(p) ==
    /\ connections[p].pc = "create_inserted"
    /\ attendance_sessions' =
          Append(CloseRows(connections[p].targets),
                 [id |-> Len(attendance_sessions) + 1,
                  unit_id |-> connections[p].unit_id, is_open |-> TRUE])
    /\ connections' = [connections EXCEPT ![p] = IdleCall]
    /\ UNCHANGED <<chapters, chapter_items, student_progress, exams, exam_questions,
                   exam_attempts, commit_log, lessons, calc, relock_due,
                   attendance_marks, auth>>

\* close_attendance_session(session_id): the UPDATE ... WHERE id = session_id starts.
CloseSessionCall(p) ==
    \E session_id \in SessionIdInputs :
        /\ connections[p].pc = "idle"
        /\ connections' = [connections EXCEPT
                             ![p] = [IdleCall EXCEPT
                                       !.pc = "close_update",
                                       !.session_id = session_id,
                                       !.targets = {session_id}
                                                     \cap (1..Len(attendance_sessions))]]
        /\ UNCHANGED <<chapters, chapter_items, student_progress, exams, exam_questions,
                       exam_attempts, commit_log, lessons, calc, relock_due, attendance,
                       auth>>

CloseSessionUpdate(p) ==
    /\ connections[p].pc = "close_update"
    /\ \A q \in Callers \ {p} : Locked(q) \cap connections[p].targets = {}
    /\ connections' = [connections EXCEPT ![p].pc = "close_updated"]
    /\ UNCHANGED <<chapters, chapter_items, student_progress, exams, exam_questions,
                   exam_attempts, commit_log, lessons, calc, relock_due, attendance, auth>>

\* conn.commit(); return True
CloseSessionCommit(p) ==
    /\ connections[p].pc = "close_updated"
    /\ attendance_sessions' = CloseRows(connections[p].targets)
    /\ connections' = [connections EXCEPT ![p] = IdleCall]
    /\ UNCHANGED <<chapters, chapter_items, student_progress, exams, exam_questions,
                   exam_attempts, commit_log, lessons, calc, relock_due,
                   attendance_marks, auth>>

\* What mark_attendance's SELECT is_open ... WHERE id = session_id finds.
mark_attendance_check(session_id) ==
    IF session_id \notin 1..Len(attendance_sessions) THEN "Session not found"
    ELSE IF ~attendance_sessions[session_id].is_open THEN "Session is closed"
    ELSE "open"

\* mark_attendance(session_id, student_id) up to its test of the session: it
\* returns (False, ...) there, or goes on to the INSERT.
MarkAttendanceCall(p) ==
    \E session_id \in SessionIdInputs, student_id \in Students :
        /\ connections[p].pc = "idle"
        /\ connections' =
              IF mark_attendance_check(session_id) = "open"
              THEN [connections EXCEPT
                      ![p] = [IdleCall EXCEPT !.pc = "mark_checked",
                                              !.session_id = session_id,
                                              !.student_id = student_id]]
              ELSE connections
        /\ UNCHANGED <<chapters, chapter_items, student_progress, exams, exam_questions,
                       exam_attempts, commit_log, lessons, calc, relock_due, attendance,
                       auth>>

MarkRow(p) == [session_id |-> connections[p].session_id,
               student_id |-> connections[p].student_id]

\* INSERT INTO attendance_marks ... ON CONFLICT (session_id, student_id) DO
\* NOTHING: it waits for an uncommitted insert of its key.
MarkAttendanceInsert(p) ==
    /\ connections[p].pc = "mark_checked"
    /\ \A q \in Callers \ {p} :
          ~(connections[q].pc = "mark_inserted" /\ MarkRow(q) = MarkRow(p)
            /\ ~connections[q].found)
    /\ connections' = [connections EXCEPT
                         ![p].pc = "mark_inserted",
                         ![p].found = BagIn(MarkRow(p), attendance_marks)]
    /\ UNCHANGED <<chapters, chapter_items, student_progress, exams, exam_questions,
                   exam_attempts, commit_log, lessons, calc, relock_due, attendance, auth>>

\* conn.commit(); return True, "Marked present"
MarkAttendanceCommit(p) ==
    /\ connections[p].pc = "mark_inserted"
    /\ BagCardinality(attendance_marks) < MaxMarks \/ connections[p].found
    /\ attendance_marks' = IF connections[p].found THEN attendance_marks
                           ELSE attendance_marks (+) SetToBag({MarkRow(p)})
    /\ connections' = [connections EXCEPT ![p] = IdleCall]
    /\ UNCHANGED <<chapters, chapter_items, student_progress, exams, exam_questions,
                   exam_attempts, commit_log, lessons, calc, relock_due,
                   attendance_sessions, auth>>

\* except Exception: conn.rollback(); return None, False or (False, "Error")
CallRollsBack(p) ==
    /\ connections[p].pc # "idle"
    /\ connections' = [connections EXCEPT ![p] = IdleCall]
    /\ UNCHANGED <<chapters, chapter_items, student_progress, exams, exam_questions,
                   exam_attempts, commit_log, lessons, calc, relock_due, attendance, auth>>

NextAttend ==
    \/ \E p \in Callers : CreateSessionCall(p)
    \/ \E p \in Callers : CreateSessionUpdate(p)
    \/ \E p \in Callers : CreateSessionInsert(p)
    \/ \E p \in Callers : CreateSessionCommit(p)
    \/ \E p \in Callers : CloseSessionCall(p)
    \/ \E p \in Callers : CloseSessionUpdate(p)
    \/ \E p \in Callers : CloseSessionCommit(p)
    \/ \E p \in Callers : MarkAttendanceCall(p)
    \/ \E p \in Callers : MarkAttendanceInsert(p)
    \/ \E p \in Callers : MarkAttendanceCommit(p)
    \/ \E p \in Callers : CallRollsBack(p)

SpecAttend == InitAttend /\ [][NextAttend]_vars

(***************************************************************************)
(* The admin login (app.py).  session is the session of one client; the    *)
(* key admin_verification holds the pending verification (NoVerification   *)
(* when the key is absent), admin_id is 0 when the key is absent.  Time is *)
(* counted in minutes.  Codes are drawn from CodeInputs; a form without a  *)
(* code is the code 0.  audit follows the flow: password_ok once           *)
(* verify_admin accepted the password, guesses counts the codes compared   *)
(* since then, limit_hit tells that the attempt limit or the expiry of a   *)
(* code was reached since then.                                            *)
(***************************************************************************)
MaxNow == 12
MaxGuesses == 4

CodeAttemptLimit == 3
CodeLifetime == 10

CodeInputs == {1, 2}
AdminId == 1

\* POST /admin/login: password_ok is what db.verify_admin makes of the form,
\* code the verification code drawn.  The session is written before the mail
\* is sent, so it is the same whether mail.send raises or not.
admin_login(password_ok, code) ==
    IF password_ok
    THEN [session EXCEPT !.admin_verification =
              [admin_id |-> AdminId, verification_code |-> code, attempts |-> 0,
               created_at |-> now]]
    ELSE session

\* GET or POST /admin/verify-code
admin_verify_code(method, entered_code) ==
    LET verification_data == session.admin_verification
        popped == [session EXCEPT !.admin_verification = NoVerification]
    IN  IF verification_data = NoVerification
        THEN [status |-> "login_again", session |-> session]
        ELSE IF now - verification_data.created_at > CodeLifetime
        THEN [status |-> "expired", session |-> popped]
        ELSE IF method = "GET" \/ entered_code = 0
        THEN [status |-> "form", session |-> session]
        ELSE IF verification_data.attempts >= CodeAttemptLimit
        THEN [status |-> "too_many", session |-> popped]
        ELSE IF entered_code = verification_data.verification_code
        THEN [status |-> "logged_in",
              session |-> [popped EXCEPT !.admin_id = verification_data.admin_id,
                                         !.user_type = "admin"]]
        ELSE [status |-> "invalid",
              session |-> [session EXCEPT !.admin_verification.attempts = @ + 1]]

\* GET /admin/resend-code
admin_resend_code(new_code) ==
    IF session.admin_verification = NoVerification THEN session
    ELSE [session EXCEPT !.admin_verification.verification_code = new_code,
                         !.admin_verification.attempts = 0,
                         !.admin_verification.created_at = now]

\* The pending verification has had its 3 wrong codes, or its code is older
\* than 10 minutes.
LimitHit(sess, t) ==
    /\ sess.admin_verification # NoVerification
    /\ \/ sess.admin_verification.attempts >= CodeAttemptLimit
       \/ t - sess.admin_verification.created_at > CodeLifetime

InitAdmin ==
    /\ chapters = <<>>
    /\ chapter_items = <<>>
    /\ student_progress = EmptyBag
    /\ exams = SeededExams
    /\ exam_questions = SeededQuestions
    /\ exam_attempts = EmptyBag
    /\ connections = NoConnections
    /\ commit_log = <<>>
    /\ lessons = NoLessons
    /\ calc = NoCalc
    /\ relock_due = {}
    /\ AttendanceIdle
    /\ AuthIdle

AdminLogin ==
    \E password_ok \in BOOLEAN, code \in CodeInputs :
        /\ session' = admin_login(password_ok, code)
        /\ audit' = IF password_ok
                    THEN [audit EXCEPT !.password_ok = TRUE, !.guesses = 0,
                                       !.limit_hit = FALSE]
                    ELSE audit
        /\ UNCHANGED <<chapters, chapter_items, student_progress, exams, exam_questions,
                       exam_attempts, connections, commit_log, lessons, calc, relock_due,
                       attendance, students, totp_enrolled, failed_attempts, now>>

AdminVerifyCode ==
    \E method \in {"GET", "POST"}, entered_code \in CodeInputs \cup {0} :
        LET r == admin_verify_code(method, entered_code)
        IN  /\ r.status \in {"logged_in", "invalid"} => audit.guesses < MaxGuesses
            /\ session' = r.session
            /\ audit' = [audit EXCEPT
                           !.guesses = IF r.status \in {"logged_in", "invalid"}
                                       THEN @ + 1 ELSE @,
                           !.limit_hit = @ \/ r.status \in {"expired", "too_many"}
                                           \/ LimitHit(r.session, now)]
            /\ UNCHANGED <<chapters, chapter_items, student_progress, exams,
                           exam_questions, exam_attempts, connections, commit_log,
                           lessons, calc, relock_due, attendance, students, totp_enrolled, failed_attempts, now>>

AdminResendCode ==
    \E new_code \in CodeInputs :
        /\ session' = admin_resend_code(new_code)
        /\ UNCHANGED <<chapters, chapter_items, student_progress, exams, exam_questions,
                       exam_attempts, connections, commit_log, lessons, calc, relock_due,
                       attendance, students, totp_enrolled, failed_attempts, now, audit>>

\* A minute passes.
Tick ==
    /\ now < MaxNow
    /\ now' = now + 1
    /\ audit' = [audit EXCEPT !.limit_hit = @ \/ LimitHit(session, now + 1)]
    /\ UNCHANGED <<chapters, chapter_items, student_progress, exams, exam_questions,
                   exam_attempts, connections, commit_log, lessons, calc, relock_due,
                   attendance, session, students, totp_enrolled, failed_attempts>>

NextAdmin ==
    \/ AdminLogin
    \/ AdminVerifyCode
    \/ AdminResendCode
    \/ Tick

SpecAdmin == InitAdmin /\ [][NextAdmin]_vars

(***************************************************************************)
(* The student and lecturer login (app.py): login, google_callback,        *)
(* verify_2fa, the 2FA setup and logout, on the session of one client.     *)
(* totp_enrolled holds the students whose row has a totp_secret.           *)
(* audit.totp_ok tells that the last login step was a successful TOTP      *)
(* verification.                                                           *)
(***************************************************************************)
\* The accounts a login form can name: a student's, a lecturer's, or none the
\* password fits (account 0).
\* POST /login: db.verify_student, then db.verify_lecturer.
login(student, lecturer) ==
    IF student # 0
    THEN [session EXCEPT !.user_id = student, !.user_type = "student"]
    ELSE IF lecturer # 0
    THEN [session EXCEPT !.user_id = lecturer, !.user_type = "lecturer"]
    ELSE session

\* The id db.create_student gives the account a Google registration creates.
NewStudent == 3

\* GET /login/google/callback for the Google account of student (0 when the
\* exchange fails); the account of NewStudent has no student row until it is
\* registered.
google_callback(student) ==
    IF student = 0 THEN session
    ELSE IF student \notin students THEN [session EXCEPT !.google_user = TRUE]
    ELSE IF student \in totp_enrolled
    THEN [session EXCEPT !.pre_2fa_user = student]
    ELSE [session EXCEPT !.user_id = student, !.user_type = "student"]

\* POST /register/google/complete; created is what db.create_student returns.
complete_google_registration(created) ==
    IF ~session.google_user \/ ~created
    THEN [session |-> session, students |-> students]
    ELSE [session |-> [session EXCEPT !.google_user = FALSE,
                                      !.user_id = NewStudent,
                                      !.user_type = "student"],
          students |-> students \cup {NewStudent}]

\* POST /verify-2fa; code_ok is what totp.verify makes of the code entered.
verify_2fa(code_ok) ==
    IF session.pre_2fa_user = 0
    THEN [status |-> "login_again", session |-> session]
    ELSE IF session.pre_2fa_user \in totp_enrolled /\ code_ok
    THEN [status |-> "logged_in",
          session |-> [session EXCEPT !.user_id = session.pre_2fa_user,
                                      !.user_type = "student",
                                      !.pre_2fa_user = 0]]
    ELSE [status |-> "invalid", session |-> session]

\* GET /setup-2fa
setup_2fa ==
    IF session.user_id = 0 THEN session
    ELSE [session EXCEPT !.pending_totp_secret = TRUE]

\* POST /verify-2fa-setup, for a student's session.
verify_2fa_setup(code_ok) ==
    IF session.user_id = 0 \/ ~session.pending_totp_secret \/ ~code_ok
       \/ session.user_type # "student"
    THEN [session |-> session, totp_enrolled |-> totp_enrolled]
    ELSE [session |-> [session EXCEPT !.pending_totp_secret = FALSE],
          totp_enrolled |-> totp_enrolled \cup {session.user_id}]

\* The test at the head of the student-only routes, as in student_dashboard.
student_dashboard ==
    IF session.user_id = 0 \/ session.user_type # "student" THEN "login"
    ELSE "dashboard"

InitLogin ==
    /\ chapters = <<>>
    /\ chapter_items = <<>>
    /\ student_progress = EmptyBag
    /\ exams = SeededExams
    /\ exam_questions = SeededQuestions
    /\ exam_attempts = EmptyBag
    /\ connections = NoConnections
    /\ commit_log = <<>>
    /\ lessons = NoLessons
    /\ calc = NoCalc
    /\ relock_due = {}
    /\ AttendanceIdle
    /\ session = EmptySession
    /\ students = Students
    /\ totp_enrolled \in SUBSET Students
    /\ failed_attempts = << >>
    /\ now = 0
    /\ audit = NoAudit

Login ==
    \* The account a Google registration creates has a random password.
    \E student \in Students \cup {0}, lecturer \in Lecturers \cup {0} :
        /\ session' = login(student, lecturer)
        /\ audit' = [audit EXCEPT !.totp_ok = FALSE]
        /\ UNCHANGED <<chapters, chapter_items, student_progress, exams, exam_questions,
                       exam_attempts, connections, commit_log, lessons, calc, relock_due,
                       attendance, students, totp_enrolled, failed_attempts, now>>

GoogleCallback ==
    \E student \in Students \cup {0, NewStudent} :
        /\ session' = google_callback(student)
        /\ audit' = [audit EXCEPT !.totp_ok = FALSE]
        /\ UNCHANGED <<chapters, chapter_items, student_progress, exams, exam_questions,
                       exam_attempts, connections, commit_log, lessons, calc, relock_due,
                       attendance, students, totp_enrolled, failed_attempts, now>>

CompleteGoogleRegistration ==
    \* db.create_student refuses an e-mail address that has a row already.
    \E created \in IF NewStudent \in students THEN {FALSE} ELSE BOOLEAN :
        /\ session' = complete_google_registration(created).session
        /\ students' = complete_google_registration(created).students
        /\ audit' = [audit EXCEPT !.totp_ok = FALSE]
        /\ UNCHANGED <<chapters, chapter_items, student_progress, exams, exam_questions,
                       exam_attempts, connections, commit_log, lessons, calc, relock_due,
                       attendance, totp_enrolled, failed_attempts, now>>

Verify2fa ==
    \E code_ok \in BOOLEAN :
        /\ session' = verify_2fa(code_ok).session
        /\ audit' = [audit EXCEPT !.totp_ok = (verify_2fa(code_ok).status = "logged_in")]
        /\ UNCHANGED <<chapters, chapter_items, student_progress, exams, exam_questions,
                       exam_attempts, connections, commit_log, lessons, calc, relock_due,
                       attendance, students, totp_enrolled, failed_attempts, now>>

Setup2fa ==
    /\ session' = setup_2fa
    /\ audit' = [audit EXCEPT !.totp_ok = FALSE]
    /\ UNCHANGED <<chapters, chapter_items, student_progress, exams, exam_questions,
                   exam_attempts, connections, commit_log, lessons, calc, relock_due,
                   attendance, students, totp_enrolled, failed_attempts, now>>

Verify2faSetup ==
    \E code_ok \in BOOLEAN :
        /\ session' = verify_2fa_setup(code_ok).session
        /\ totp_enrolled' = verify_2fa_setup(code_ok).totp_enrolled
        /\ audit' = [audit EXCEPT !.totp_ok = FALSE]
        /\ UNCHANGED <<chapters, chapter_items, student_progress, exams, exam_questions,
                       exam_attempts, connections, commit_log, lessons, calc, relock_due,
                       attendance, students, failed_attempts, now>>

\* GET /logout: session.clear()
Logout ==
    /\ session' = EmptySession
    /\ audit' = [audit EXCEPT !.totp_ok = FALSE]
    /\ UNCHANGED <<chapters, chapter_items, student_progress, exams, exam_questions,
                   exam_attempts, connections, commit_log, lessons, calc, relock_due,
                   attendance, students, totp_enrolled, failed_attempts, now>>

StudentDashboard ==
    /\ student_dashboard \in {"login", "dashboard"}
    /\ UNCHANGED vars

NextLogin ==
    \/ Login
    \/ GoogleCallback
    \/ CompleteGoogleRegistration
    \/ Verify2fa
    \/ Setup2fa
    \/ Verify2faSetup
    \/ Logout
    \/ StudentDashboard

SpecLogin == InitLogin /\ [][NextLogin]_vars

(***************************************************************************)
(* The rate limit of logins (app.py and security.py, the same text twice): *)
(* failed_attempts maps a client address to (attempts, last_attempt); the  *)
(* clock counts minutes.  audit.refused holds the addresses a check has    *)
(* refused since they were last cleared.                                   *)
(***************************************************************************)
MaxClock == 17
MaxFailures == 6
Addresses == {1, 2}

\* The defaults of check_login_attempts.
max_attempts == 5
lockout_time == 15

\* del failed_attempts[ip_address]
WithoutAddress(ip_address) ==
    [a \in DOMAIN failed_attempts \ {ip_address} |-> failed_attempts[a]]

\* check_login_attempts with an expired entry left in place.
check_login_attempts_keeping_expired(ip_address) ==
    IF ip_address \in DOMAIN failed_attempts
       /\ now - failed_attempts[ip_address].last_attempt <= lockout_time
       /\ failed_attempts[ip_address].attempts >= max_attempts
    THEN [ok |-> FALSE, failed_attempts |-> failed_attempts]
    ELSE [ok |-> TRUE, failed_attempts |-> failed_attempts]

check_login_attempts(ip_address) ==
    IF ip_address \in DOMAIN failed_attempts
    THEN IF now - failed_attempts[ip_address].last_attempt > lockout_time
         THEN [ok |-> TRUE, failed_attempts |-> WithoutAddress(ip_address)]
         ELSE IF failed_attempts[ip_address].attempts >= max_attempts
         THEN [ok |-> FALSE, failed_attempts |-> failed_attempts]
         ELSE [ok |-> TRUE, failed_attempts |-> failed_attempts]
    ELSE [ok |-> TRUE, failed_attempts |-> failed_attempts]

record_failed_attempt(ip_address) ==
    [a \in DOMAIN failed_attempts \cup {ip_address} |->
        IF a # ip_address THEN failed_attempts[a]
        ELSE IF ip_address \in DOMAIN failed_attempts
        THEN [attempts |-> failed_attempts[ip_address].attempts + 1,
              last_attempt |-> now]
        ELSE [attempts |-> 1, last_attempt |-> now]]

clear_login_attempts(ip_address) ==
    IF ip_address \in DOMAIN failed_attempts THEN WithoutAddress(ip_address)
    ELSE failed_attempts

InitRate ==
    /\ chapters = <<>>
    /\ chapter_items = <<>>
    /\ student_progress = EmptyBag
    /\ exams = SeededExams
    /\ exam_questions = SeededQuestions
    /\ exam_attempts = EmptyBag
    /\ connections = NoConnections
    /\ commit_log = <<>>
    /\ lessons = NoLessons
    /\ calc = NoCalc
    /\ relock_due = {}
    /\ AttendanceIdle
    /\ AuthIdle

CheckLoginAttempts ==
    \E ip_address \in Addresses :
        /\ failed_attempts' = check_login_attempts(ip_address).failed_attempts
        /\ audit' = IF check_login_attempts(ip_address).ok THEN audit
                    ELSE [audit EXCEPT !.refused = @ \cup {ip_address}]
        /\ UNCHANGED <<chapters, chapter_items, student_progress, exams, exam_questions,
                       exam_attempts, connections, commit_log, lessons, calc, relock_due,
                       attendance, session, students, totp_enrolled, now>>

RecordFailedAttempt ==
    \E ip_address \in Addresses :
        /\ ip_address \in DOMAIN failed_attempts
              => failed_attempts[ip_address].attempts < MaxFailures
        /\ failed_attempts' = record_failed_attempt(ip_address)
        /\ UNCHANGED <<chapters, chapter_items, student_progress, exams, exam_questions,
                       exam_attempts, connections, commit_log, lessons, calc, relock_due,
                       attendance, session, students, totp_enrolled, now, audit>>

ClearLoginAttempts ==
    \E ip_address \in Addresses :
        /\ failed_attempts' = clear_login_attempts(ip_address)
        /\ audit' = [audit EXCEPT !.refused = @ \ {ip_address}]
        /\ UNCHANGED <<chapters, chapter_items, student_progress, exams, exam_questions,
                       exam_attempts, connections, commit_log, lessons, calc, relock_due,
                       attendance, session, students, totp_enrolled, now>>

\* datetime.now() a minute later.
MinutePasses ==
    /\ now < MaxClock
    /\ now' = now + 1
    /\ UNCHANGED <<chapters, chapter_items, student_progress, exams, exam_questions,
                       exam_attempts, connections, commit_log, lessons, calc, relock_due,
                       attendance, session, students, totp_enrolled, failed_attempts, audit>>

NextRate ==
    \/ CheckLoginAttempts
    \/ RecordFailedAttempt
    \/ ClearLoginAttempts
    \/ MinutePasses

SpecRate == InitRate /\ [][NextRate]_vars

(***************************************************************************)
(* What the claims speak of, read off the store.                           *)
(***************************************************************************)
RangeOf(seq) == {seq[k] : k \in 1..Len(seq)}

\* The persisted items of a unit: those of the unit's chapters.
UnitItems(unit_id) ==
    {it \in RangeOf(chapter_items) :
        \E ch \in RangeOf(chapters) : ch.id = it.chapter_id /\ ch.unit_id = unit_id}

NonExamItemIds(unit_id) == {it.id : it \in {x \in UnitItems(unit_id) : x.type # "exam"}}

StudentSessions == {sess \in Sessions : IsStudent(sess)}

\* The score the answers earn: the points of each mcq or tf question whose
\* submitted answer equals its key.
RECURSIVE EarnedPoints(_, _)
EarnedPoints(questions, answers) ==
    IF questions = <<>> THEN 0
    ELSE LET q == Head(questions)
             earned == IF /\ q.type \in {"mcq", "tf"}
                          /\ q.id \in DOMAIN answers
                          /\ answers[q.id] = q.correct
                       THEN q.points ELSE 0
         IN  earned + EarnedPoints(Tail(questions), answers)

RECURSIVE TotalPoints(_)
TotalPoints(questions) ==
    IF questions = <<>> THEN 0
    ELSE Head(questions).points + TotalPoints(Tail(questions))

(***************************************************************************)
(* C1.  Exact-100 gate: in every reachable store and for every session and *)
(* unit, learning_interface's exam_unlocked and exam_landing's unlocked    *)
(* are true exactly when progress_percentage is 100, and both are false    *)
(* when the unit has no non-exam item.                                     *)
(***************************************************************************)
C1_ExactGate ==
    \A sess \in Sessions, unit_id \in Units :
        LET li == learning_interface(sess, unit_id)
            el == exam_landing(sess, unit_id)
        IN  /\ li.exam_unlocked <=> (li.progress_percentage = 100)
            /\ el.status = "rendered" =>
                 (el.unlocked <=> (li.progress_percentage = 100))
            /\ NonExamItemIds(unit_id) = {} => (~li.exam_unlocked /\ ~el.unlocked)

\* A student has completed every non-exam item and both gates report unlocked,
\* while another session of the same unit is still locked.
C1_Witness ==
    \E sess \in StudentSessions, other \in Sessions, unit_id \in Units :
        /\ learning_interface(sess, unit_id).exam_unlocked
        /\ exam_landing(sess, unit_id).unlocked
        /\ learning_interface(sess, unit_id).total_items = 2
        /\ ~learning_interface(other, unit_id).exam_unlocked
        /\ ~exam_landing(other, unit_id).unlocked

(***************************************************************************)
(* C2.  Exam access only when unlocked: a student is served the question   *)
(* set by exam_start, or has an attempt recorded by exam_submit, only if   *)
(* the student's progress_percentage for the unit is 100 at that moment.   *)
(***************************************************************************)
C2_AccessOnlyWhenUnlocked ==
    \A sess \in Sessions, unit_id \in Units, answers \in AnswerInputs :
        LET pct == learning_interface(sess, unit_id).progress_percentage
        IN  /\ exam_start(sess, unit_id).status = "exam_take" => pct = 100
            /\ exam_submit(sess, unit_id, answers, TRUE, TRUE).exam_attempts
                 # exam_attempts => pct = 100

(***************************************************************************)
(* C3.  raw_score: the score exam_submit shows is the sum of the points of *)
(* the mcq and tf questions answered with their key.                       *)
(***************************************************************************)
C3_ScoreIsEarnedPoints ==
    \A sess \in StudentSessions, unit_id \in Units, answers \in AnswerInputs :
        LET r == exam_submit(sess, unit_id, answers, TRUE, TRUE)
        IN  r.status = "exam_result" =>
              r.score = EarnedPoints(get_exam_questions(get_exam_by_unit(unit_id).id),
                                     answers)

(***************************************************************************)
(* C4.  total_marks: the total exam_submit shows is the sum of the points  *)
(* of all questions of the exam, whatever the answers.                     *)
(***************************************************************************)
C4_TotalIsAllPoints ==
    \A sess \in StudentSessions, unit_id \in Units, answers \in AnswerInputs :
        LET r == exam_submit(sess, unit_id, answers, TRUE, TRUE)
        IN  r.status = "exam_result" =>
              r.total = TotalPoints(get_exam_questions(get_exam_by_unit(unit_id).id))

(***************************************************************************)
(* C5.  At most one ExamAttempt row per (exam, student).                   *)
(***************************************************************************)
AttemptsOf(exam_id, student_id) ==
    LET F(r) == IF r.exam_id = exam_id /\ r.student_id = student_id
                THEN exam_attempts[r] ELSE 0
        RECURSIVE Count(_)
        Count(rows) == IF rows = {} THEN 0
                       ELSE LET r == CHOOSE x \in rows : TRUE
                            IN  F(r) + Count(rows \ {r})
    IN  Count(BagToSet(exam_attempts))

C5_OneAttemptPerStudent ==
    \A e \in RangeOf(exams), s \in Students : AttemptsOf(e.id, s) <= 1

(***************************************************************************)
(* C6.  A step that persists an attempt of a student leaves the exam's     *)
(* item completed in that student's progress for the unit.                 *)
(***************************************************************************)
ExamItemIds(unit_id) ==
    {it.id : it \in {x \in UnitItems(unit_id) : x.type = "exam"}} \cup {-100000}

ExamItemCompleted(table, student_id, unit_id) ==
    \E r \in BagToSet(table) :
        /\ r.student_id = student_id /\ r.unit_id = unit_id
        /\ r.item_id \in ExamItemIds(unit_id) /\ r.completed = TRUE

C6_SubmitMarksExamItem ==
    [][\A e \in RangeOf(exams), s \in Students :
          AttemptsOf(e.id, s)' > AttemptsOf(e.id, s)
            => ExamItemCompleted(student_progress', s, e.unit_id)]_vars

(***************************************************************************)
(* C7.  When persisting the attempt fails, exam_submit reports an error,   *)
(* not a score, and does not mark the exam item completed.                 *)
(***************************************************************************)
C7_FailureIsReported ==
    \A sess \in StudentSessions, unit_id \in Units, answers \in AnswerInputs :
        LET r == exam_submit(sess, unit_id, answers, FALSE, TRUE)
        IN  get_exam_by_unit(unit_id) # NoExam =>
              /\ r.status # "exam_result"
              /\ r.student_progress = student_progress

(***************************************************************************)
(* C8.  update_student_progress is idempotent: after a call that the store *)
(* accepted, a second call with the same arguments, accepted or not,       *)
(* leaves every get_student_progress map as the first call left it.       *)
(***************************************************************************)
C8_Idempotent ==
    \A s \in Students, u \in Units, i \in ItemIdInputs, c \in BOOLEAN,
       second_ok \in BOOLEAN :
        LET once == update_student_progress(student_progress, s, u, i, c, TRUE).table
            twice == update_student_progress(once, s, u, i, c, second_ok).table
        IN  \A s2 \in Students, u2 \in Units :
              ProgressDict(twice, s2, u2) = ProgressDict(once, s2, u2)

\* The store holds a completed and an uncompleted record: calls have acted,
\* and the repeated call meets a record of its key.
C8_Witness ==
    /\ \E r \in BagToSet(student_progress) : r.completed
    /\ \E r \in BagToSet(student_progress) : ~r.completed

(***************************************************************************)
(* C9.  The progress store holds at most one record per                    *)
(* (student, unit, item), whatever update_progress and exam_submit did.    *)
(***************************************************************************)
C9_UniqueProgressRecord ==
    /\ \A r \in BagToSet(student_progress) : CopiesIn(r, student_progress) = 1
    /\ \A r1, r2 \in BagToSet(student_progress) : SameKey(r1, r2) => r1 = r2

\* A record was written and then written again with the other flag, next to a
\* record of another key, after an exam submission.
C9_Witness ==
    /\ BagCardinality(student_progress) = 2
    /\ \E r \in BagToSet(student_progress) : ~r.completed
    /\ BagCardinality(exam_attempts) > 0

(***************************************************************************)
(* C10.  Two concurrent update_student_progress calls on one triple leave  *)
(* exactly one record of it, holding the flag of the call that committed   *)
(* last; at no time are there two records of the triple.                   *)
(***************************************************************************)
C10_LastCommitterWins ==
    /\ \A r \in KeyRows(student_progress, 1, 1, 1) : CopiesIn(r, student_progress) = 1
    /\ Cardinality(KeyRows(student_progress, 1, 1, 1)) <= 1
    /\ commit_log # <<>> =>
         KeyRows(student_progress, 1, 1, 1) =
           {SharedRow(connections[commit_log[Len(commit_log)]].completed)}

\* Both calls committed, with different flags, on a triple that had no record
\* when the first of them executed.
C10_Witness ==
    /\ Len(commit_log) = 2
    /\ connections[commit_log[1]].completed # connections[commit_log[2]].completed
    /\ ~connections[commit_log[1]].found
    /\ connections[commit_log[2]].found

(***************************************************************************)
(* C11.  progress_percentage is floor(100 * completed_items / total_items) *)
(* for every completed_items <= total_items with total_items > 0, and 0    *)
(* when total_items is 0.                                                  *)
(***************************************************************************)
C11_PercentageIsFloor ==
    calc.progress_percentage =
        IF calc.total_items = 0 THEN 0
        ELSE (100 * calc.completed_items) \div calc.total_items

(***************************************************************************)
(* C14.  With the curriculum fixed, one more completed non-exam item never *)
(* lowers progress_percentage and one fewer never raises it.               *)
(***************************************************************************)
C14_PercentageMonotone ==
    [][/\ calc'.total_items = calc.total_items
          /\ calc'.completed_items = calc.completed_items + 1
            => calc'.progress_percentage >= calc.progress_percentage
       /\ calc'.total_items = calc.total_items
          /\ calc'.completed_items = calc.completed_items - 1
            => calc'.progress_percentage <= calc.progress_percentage]_vars

\* All items of the largest unit were marked complete one by one, and the
\* percentage climbed to 100.
C14_Witness ==
    /\ calc.total_items = MaxTotalItems
    /\ calc.completed_items = calc.total_items
    /\ calc.progress_percentage = 100

(***************************************************************************)
(* C12.  total_items is the number of the unit's items whose type is not   *)
(* exam, completed_items the number of those whose progress flag is true   *)
(* for the session's student; exam items change neither count, and         *)
(* completed_items <= total_items.                                         *)
(***************************************************************************)
\* The progress flag of an item for a session, read off the table.
FlagOf(sess, unit_id, item_id) ==
    /\ IsStudent(sess)
    /\ \E r \in BagToSet(student_progress) :
          /\ r.student_id = sess.user_id /\ r.unit_id = unit_id
          /\ r.item_id = item_id /\ r.completed

C12_CountsOfNonExamItems ==
    \A sess \in Sessions, unit_id \in Units :
        LET li == learning_interface(sess, unit_id)
            non_exam == {it \in UnitItems(unit_id) : it.type # "exam"}
            done == {it \in non_exam : FlagOf(sess, unit_id, it.id)}
        IN  /\ li.total_items = Cardinality(non_exam)
            /\ li.completed_items = Cardinality(done)
            /\ li.completed_items <= li.total_items

\* A unit holds a lesson and a persisted exam item, a student has both marked
\* completed, and the counts are one of one.
C12_Witness ==
    \E sess \in StudentSessions, unit_id \in Units :
        /\ \E it \in UnitItems(unit_id) : it.type = "exam" /\ FlagOf(sess, unit_id, it.id)
        /\ \E it \in UnitItems(unit_id) : it.type # "exam" /\ FlagOf(sess, unit_id, it.id)
        /\ learning_interface(sess, unit_id).total_items = 1
        /\ learning_interface(sess, unit_id).completed_items = 1

(***************************************************************************)
(* C13.  completed_chapters is the number of the unit's chapters that have *)
(* at least one item and whose items, of any type, are all completed.      *)
(***************************************************************************)
ItemsOfChapter(chapter_id) == {it \in RangeOf(chapter_items) : it.chapter_id = chapter_id}

C13_CompletedChapters ==
    \A sess \in Sessions, unit_id \in Units :
        learning_interface(sess, unit_id).completed_chapters =
            Cardinality({ch \in RangeOf(chapters) :
                            /\ ch.unit_id = unit_id
                            /\ ItemsOfChapter(ch.id) # {}
                            /\ \A it \in ItemsOfChapter(ch.id) :
                                  FlagOf(sess, unit_id, it.id)})

(***************************************************************************)
(* C17.  The unlock state is recomputed at each gate check: when a step    *)
(* sets a non-exam item of a student at 100 percent back to incomplete, or *)
(* adds a non-exam item to the unit, both gates report the exam locked for *)
(* that student in the state the step leaves.                              *)
(***************************************************************************)
SetBack(sess, unit_id) ==
    /\ student_progress' # student_progress
    /\ \E it \in UnitItems(unit_id) :
        /\ it.type # "exam"
        /\ FlagOf(sess, unit_id, it.id)
        /\ ~FlagOf(sess, unit_id, it.id)'

NonExamItemAdded(unit_id) ==
    /\ chapter_items' # chapter_items
    /\ \E it \in UnitItems(unit_id)' : it.type # "exam" /\ it \notin UnitItems(unit_id)

\* The students who stood at an unlocked exam of a unit when the last step
\* set one of their non-exam items back or added a non-exam item to the unit.
Observed ==
    {pair \in Students \X Units :
        LET sess == [user_id |-> pair[1], user_type |-> "student"]
        IN  /\ SetBack(sess, pair[2]) \/ NonExamItemAdded(pair[2])
            /\ learning_interface(sess, pair[2]).exam_unlocked}

\* The write handlers as in Spec, with relock_due recording the step.
UpdateProgressObserved ==
    \E sess \in Sessions, unit_id \in Units, item_id \in ItemIdInputs,
       completed \in BOOLEAN, store_ok \in BOOLEAN :
        LET r == update_progress(sess, unit_id, item_id, completed, store_ok)
        IN  /\ BagCardinality(r.student_progress) <= MaxProgress
            /\ student_progress' = r.student_progress
            /\ UNCHANGED <<chapters, chapter_items, exams, exam_questions, exam_attempts,
                           connections, commit_log, lessons, calc, attendance, auth>>
            /\ relock_due' = Observed

ApiCreateItemObserved ==
    \E sess \in Sessions, unit_id \in Units, chapter_id \in ChapterIdInputs,
       item_type \in ItemTypeInputs :
        /\ Len(chapter_items) < MaxItems
        /\ chapter_items' = api_create_item(sess, unit_id, chapter_id, item_type).chapter_items
        /\ UNCHANGED <<chapters, student_progress, exams, exam_questions, exam_attempts,
                       connections, commit_log, lessons, calc, attendance, auth>>
        /\ relock_due' = Observed

CreateChapterItemObserved ==
    \E sess \in Sessions, unit_id \in Units, chapter_id \in ChapterIdInputs,
       item_type \in ItemTypeInputs :
        /\ Len(chapter_items) < MaxItems
        /\ chapter_items' = create_chapter_item(sess, unit_id, chapter_id, item_type).chapter_items
        /\ UNCHANGED <<chapters, student_progress, exams, exam_questions, exam_attempts,
                       connections, commit_log, lessons, calc, attendance, auth>>
        /\ relock_due' = Observed

\* The gate checks (LearningInterface, ExamLanding) follow any step.
NextGate ==
    \/ UpdateProgressObserved
    \/ ApiCreateItemObserved
    \/ CreateChapterItemObserved
    \/ LearningInterface
    \/ ExamLanding

SpecGate == InitExam /\ [][NextGate]_vars

C17_UnlockIsDerived ==
    \A pair \in relock_due :
        LET sess == [user_id |-> pair[1], user_type |-> "student"]
        IN  /\ ~learning_interface(sess, pair[2]).exam_unlocked
            /\ ~exam_landing(sess, pair[2]).unlocked

(***************************************************************************)
(* C18.  When no exam item is persisted in a unit, the chapters that       *)
(* learning_interface renders end with exactly one virtual chapter 'Final  *)
(* Examination' holding exactly one exam item, both with negative ids;     *)
(* when an exam item is persisted, no virtual chapter is rendered.  The    *)
(* handler is a read: its step leaves every table as it is.                *)
(***************************************************************************)
C18_VirtualChapter ==
    \A sess \in Sessions, unit_id \in Units :
        LET chs == learning_interface(sess, unit_id).chapters
            n == Cardinality({ch \in RangeOf(chapters) : ch.unit_id = unit_id})
            virtual == {k \in 1..Len(chs) :
                          chs[k].id < 0 \/ chs[k].title = "Final Examination"}
        IN  IF \E it \in UnitItems(unit_id) : it.type = "exam"
            THEN virtual = {} /\ Len(chs) = n
            ELSE /\ Len(chs) = n + 1
                 /\ virtual = {n + 1}
                 /\ chs[n + 1].id < 0
                 /\ chs[n + 1].title = "Final Examination"
                 /\ Len(chs[n + 1].items) = 1
                 /\ chs[n + 1].items[1].type = "exam"
                 /\ chs[n + 1].items[1].id < 0

\* One unit has a chapter with a persisted exam item and is rendered without
\* a virtual chapter, while another unit is rendered with one.
C18_Witness ==
    \E sess \in Sessions, u1 \in Units, u2 \in Units :
        /\ \E it \in UnitItems(u1) : it.type = "exam"
        /\ \A k \in 1..Len(learning_interface(sess, u1).chapters) :
              learning_interface(sess, u1).chapters[k].id > 0
        /\ Len(learning_interface(sess, u1).chapters) = 1
        /\ learning_interface(sess, u2).chapters[1].id = -99999

(***************************************************************************)
(* C20.  When the store write of update_student_progress fails,            *)
(* update_progress answers success = false and the progress table is as it *)
(* was: no record created, changed or removed.                             *)
(***************************************************************************)
C20_FailedUpdateChangesNothing ==
    \A sess \in StudentSessions, unit_id \in Units, item_id \in ItemIdInputs,
       completed \in BOOLEAN :
        LET r == update_progress(sess, unit_id, item_id, completed, FALSE)
        IN  /\ r.success = FALSE
            /\ r.student_progress = student_progress

\* A student holds a completed record, so that a failing request to set it
\* back, or to add a second record, has something to leave as it was.
C20_Witness ==
    \E sess \in StudentSessions, unit_id \in Units, item_id \in ItemIdInputs :
        /\ FlagOf(sess, unit_id, item_id)
        /\ ~update_progress(sess, unit_id, item_id, FALSE, FALSE).success
        /\ update_progress(sess, unit_id, item_id, FALSE, TRUE).student_progress
             # student_progress

(***************************************************************************)
(* C19.  No core operation swallows a persistence failure: a failing       *)
(* get_unit_chapters, get_chapter_items, get_student_progress,             *)
(* update_student_progress or save_exam_attempt_and_score hands its caller *)
(* a result that differs from the result of the same call succeeding, and, *)
(* for the grader, one that is not a score out of a total.                 *)
(***************************************************************************)
C19_FailuresAreExplicit ==
    /\ \A u \in Units :
          get_unit_chapters_or_default(u, FALSE) # get_unit_chapters_or_default(u, TRUE)
    /\ \A ch \in ChapterIdInputs :
          get_chapter_items_or_default(ch, FALSE) # get_chapter_items_or_default(ch, TRUE)
    /\ \A s \in Students, u \in Units :
          get_student_progress_or_default(s, u, FALSE)
            # get_student_progress_or_default(s, u, TRUE)
    /\ \A s \in Students, u \in Units, i \in ItemIdInputs, c \in BOOLEAN :
          update_student_progress(student_progress, s, u, i, c, FALSE).result
            # update_student_progress(student_progress, s, u, i, c, TRUE).result
    /\ \A e \in RangeOf(exams), s \in Students, answers \in AnswerInputs :
          LET failed == save_exam_attempt_and_score(exam_attempts, e.id, s, answers, FALSE)
          IN  failed.score \notin 0..failed.total

(***************************************************************************)
(* C15.  A creation request on a unit below the content threshold fails    *)
(* and leaves no Exam row and no exam Item row: a step that adds either    *)
(* row adds an Exam of a unit that met the threshold before the step.      *)
(***************************************************************************)
ThresholdMet(unit_id) ==
    \/ count_lessons_in_unit(unit_id) >= ExamThreshold
    \/ Len(get_unit_chapters(unit_id)) >= ExamThreshold

RowsOfOthers(table, student_id) ==
    [r \in {x \in BagToSet(table) : x.student_id # student_id} |-> table[r]]

C21_OnlyOwnerWrites ==
    \A sess \in Sessions, unit_id \in Units :
        /\ \A item_id \in ItemIdInputs, completed \in BOOLEAN, store_ok \in BOOLEAN :
              LET r == update_progress(sess, unit_id, item_id, completed, store_ok)
              IN  /\ ~IsStudent(sess) => r.student_progress = student_progress
                  /\ RowsOfOthers(r.student_progress, sess.user_id)
                       = RowsOfOthers(student_progress, sess.user_id)
        /\ \A answers \in AnswerInputs, attempt_ok \in BOOLEAN, progress_ok \in BOOLEAN :
              LET r == exam_submit(sess, unit_id, answers, attempt_ok, progress_ok)
              IN  /\ ~IsStudent(sess) => /\ r.student_progress = student_progress
                                         /\ r.exam_attempts = exam_attempts
                  /\ RowsOfOthers(r.student_progress, sess.user_id)
                       = RowsOfOthers(student_progress, sess.user_id)
                  /\ RowsOfOthers(r.exam_attempts, sess.user_id)
                       = RowsOfOthers(exam_attempts, sess.user_id)

\* Each of the two students holds a record and an attempt was stored, and a
\* lecturer's request for a student's triple would change nothing while the
\* student's own request would.
C21_Witness ==
    /\ \A s \in Students : \E r \in BagToSet(student_progress) : r.student_id = s
    /\ BagCardinality(exam_attempts) > 0
    /\ \E r \in BagToSet(student_progress), l \in Lecturers :
          /\ l = r.student_id
          /\ update_progress([user_id |-> l, user_type |-> "lecturer"], r.unit_id,
                             r.item_id, ~r.completed, TRUE).student_progress
               = student_progress
          /\ update_progress([user_id |-> l, user_type |-> "student"], r.unit_id,
                             r.item_id, ~r.completed, TRUE).student_progress
               # student_progress

(***************************************************************************)
(* C22.  Grading is deterministic: with the exam and its questions fixed,  *)
(* a student who submits the same answer map twice is shown the same       *)
(* (score, total) pair both times, whatever the store did with either      *)
(* attempt.                                                                *)
(***************************************************************************)
C22_GradingDeterministic ==
    \A sess \in StudentSessions, unit_id \in Units, answers \in AnswerInputs,
       first_ok \in BOOLEAN, second_ok \in BOOLEAN :
        LET first == exam_submit(sess, unit_id, answers, first_ok, TRUE)
            second == save_exam_attempt_and_score(first.exam_attempts,
                                                  get_exam_by_unit(unit_id).id,
                                                  sess.user_id, answers, second_ok)
        IN  first.status = "exam_result" =>
              <<first.score, first.total>> = <<second.score, second.total>>

(***************************************************************************)
(* C23.  Two concurrent exam submissions for one (exam, student): once     *)
(* both calls have returned and at least one committed, the store holds a  *)
(* single attempt of the pair, with the answers of the call that committed *)
(* last.                                                                   *)
(***************************************************************************)
C23_SubmissionsConverge ==
    (/\ \A p \in Callers : connections[p].pc \in {"returned_0_100", "returned_50_100"}
     /\ commit_log # <<>>)
      => /\ AttemptsOf(1, 1) = 1
         /\ \E r \in BagToSet(exam_attempts) :
               /\ r.exam_id = 1 /\ r.student_id = 1
               /\ r.answers = connections[commit_log[Len(commit_log)]].answers

(***************************************************************************)
(* C24.  The chapters of a unit and the items of a chapter reach the       *)
(* progress computation in ascending order_index, entries of equal         *)
(* order_index in the order of their insertion; no chapters, or no items,  *)
(* gives the empty sequence.                                               *)
(***************************************************************************)
\* s holds the rows in ascending order_index, ties in insertion order (ids are
\* handed out in insertion order).
IsStableAscending(s, rows) ==
    /\ Len(s) = Len(rows)
    /\ RangeOf(s) = RangeOf(rows)
    /\ \A i, j \in 1..Len(s) :
          i < j => \/ s[i].order_index < s[j].order_index
                   \/ s[i].order_index = s[j].order_index /\ s[i].id < s[j].id

C25_GatesAgree ==
    \A sess \in Sessions, unit_id \in Units :
        /\ landing_unlocked(sess, unit_id) <=> learning_interface(sess, unit_id).exam_unlocked
        /\ exam_landing(sess, unit_id).status = "rendered"
             => exam_landing(sess, unit_id).unlocked = landing_unlocked(sess, unit_id)

\* A student has completed both lessons of a unit and both gates are open,
\* while for a lecturer with the same user_id and for the other student both
\* are closed.
C25_Witness ==
    \E sess \in StudentSessions, unit_id \in Units :
        /\ Cardinality(NonExamItemIds(unit_id)) = 2
        /\ landing_unlocked(sess, unit_id)
        /\ learning_interface(sess, unit_id).exam_unlocked
        /\ \E other \in Sessions \ {sess} :
              /\ other.user_id = sess.user_id
              /\ ~landing_unlocked(other, unit_id)
              /\ ~learning_interface(other, unit_id).exam_unlocked
        /\ \E other \in StudentSessions \ {sess} :
              /\ ~landing_unlocked(other, unit_id)
              /\ ~learning_interface(other, unit_id).exam_unlocked

(***************************************************************************)
(* C26.  Whatever create_attendance_session and close_attendance_session   *)
(* calls were made, one after another or at once, each unit has at most    *)
(* one attendance session with is_open true: a step that opens a session   *)
(* leaves every session of the unit that was open before closed, and the   *)
(* sessions of the other units as they were.                               *)
(***************************************************************************)
AtMostOneOpenSession == \A unit_id \in Units : Cardinality(OpenSessionIds(unit_id)) <= 1

OpeningClosesTheOthers ==
    Len(attendance_sessions') = Len(attendance_sessions) + 1 =>
        LET new == attendance_sessions'[Len(attendance_sessions')]
        IN  /\ new.is_open
            /\ \A k \in 1..Len(attendance_sessions) :
                  IF attendance_sessions[k].unit_id = new.unit_id
                  THEN ~attendance_sessions'[k].is_open
                  ELSE attendance_sessions'[k] = attendance_sessions[k]

C26_OneOpenSessionPerUnit == []AtMostOneOpenSession /\ [][OpeningClosesTheOthers]_vars

(***************************************************************************)
(* C27.  mark_attendance records a mark only for an existing session that  *)
(* is open: a step that adds a mark adds it to a session that exists and   *)
(* is open, so none is added to an unknown or closed session or after      *)
(* close_attendance_session has committed; and there is at most one mark   *)
(* per (session, student), a repeated mark leaving the marks as they are.  *)
(***************************************************************************)
MarkedOnlyWhileOpen ==
    \A row \in BagToSet(attendance_marks') :
        CopiesIn(row, attendance_marks') > CopiesIn(row, attendance_marks)
          => mark_attendance_check(row.session_id) = "open"

OneMarkPerStudent ==
    \A row \in BagToSet(attendance_marks) : CopiesIn(row, attendance_marks) = 1

C27_MarksOnlyInOpenSessions == []OneMarkPerStudent /\ [][MarkedOnlyWhileOpen]_vars

(***************************************************************************)
(* C28.  An admin session is established only by a step in which the code  *)
(* issued for the pending verification is entered, after verify_admin      *)
(* accepted the password, within 10 minutes of the code's issue and before *)
(* 3 wrong codes were entered; once the limit or the expiry was hit no     *)
(* code logs the admin in until the next password login; and no more than  *)
(* 3 codes are compared per password login, admin_resend_code included.    *)
(***************************************************************************)
AdminSessionOnlyAfterCode ==
    session'.admin_id # session.admin_id =>
        LET verification_data == session.admin_verification
        IN  /\ audit.password_ok
            /\ ~audit.limit_hit
            /\ verification_data # NoVerification
            /\ now - verification_data.created_at <= CodeLifetime
            /\ verification_data.attempts < CodeAttemptLimit
            /\ session'.admin_id = verification_data.admin_id
            /\ session'.admin_verification = NoVerification

GuessesBounded == audit.guesses <= CodeAttemptLimit

C28_AdminSecondFactor ==
    /\ [][AdminSessionOnlyAfterCode]_vars
    /\ []GuessesBounded

(***************************************************************************)
(* C29.  A student with a TOTP secret gets a student session only by a     *)
(* successful TOTP verification: a step of login, google_callback or       *)
(* verify_2fa that puts an enrolled student's id into the session is a     *)
(* successful verify_2fa; and while of user_id and pre_2fa_user only       *)
(* pre_2fa_user is set, the student-only routes send the client to login.  *)
(***************************************************************************)
ObtainsStudentSession ==
    /\ session'.user_type = "student"
    /\ session'.user_id # 0
    /\ session'.user_id # session.user_id \/ session.user_type # "student"

EnrolledNeedTotp ==
    ObtainsStudentSession /\ session'.user_id \in totp_enrolled => audit'.totp_ok

Pre2faIsNotLoggedIn ==
    session.pre_2fa_user # 0 /\ session.user_id = 0 => student_dashboard = "login"

C29_TotpBeforeStudentSession == [][EnrolledNeedTotp]_vars /\ []Pre2faIsNotLoggedIn

(***************************************************************************)
(* C30.  The rate limit of logins, address by address.  While an entry has *)
(* max_attempts or more failures and no more than lockout_time has passed  *)
(* since the last of them, check_login_attempts refuses and leaves the map *)
(* alone; once more than lockout_time has passed it accepts and removes    *)
(* the entry; an entry that appears starts at one failure and one that     *)
(* stays grows by one failure at a time, stamped with the clock;           *)
(* clear_login_attempts removes the entry at once; and none of the three   *)
(* operations on one address changes the entry of another.                 *)
(***************************************************************************)
EntryOf(attempts_by_address, a) ==
    IF a \in DOMAIN attempts_by_address THEN <<attempts_by_address[a]>> ELSE <<>>

LockedOut(a) ==
    /\ a \in DOMAIN failed_attempts
    /\ failed_attempts[a].attempts >= max_attempts
    /\ now - failed_attempts[a].last_attempt <= lockout_time

LockoutOver(a) ==
    /\ a \in DOMAIN failed_attempts
    /\ now - failed_attempts[a].last_attempt > lockout_time

RefusedWhileLockedOut ==
    \A a \in Addresses :
        /\ check_login_attempts(a).ok = ~LockedOut(a)
        /\ LockedOut(a) => check_login_attempts(a).failed_attempts = failed_attempts

RemovedWhenLockoutOver ==
    \A a \in Addresses :
        /\ LockoutOver(a) => /\ check_login_attempts(a).ok
                              /\ a \notin DOMAIN check_login_attempts(a).failed_attempts
        /\ a \in DOMAIN failed_attempts /\ ~LockoutOver(a)
              => check_login_attempts(a).failed_attempts = failed_attempts

ClearedAtOnce ==
    \A a \in Addresses : a \notin DOMAIN clear_login_attempts(a)

OtherAddressesUntouched ==
    \A a \in Addresses : \A b \in Addresses \ {a} :
        /\ EntryOf(check_login_attempts(a).failed_attempts, b) = EntryOf(failed_attempts, b)
        /\ EntryOf(record_failed_attempt(a), b) = EntryOf(failed_attempts, b)
        /\ EntryOf(clear_login_attempts(a), b) = EntryOf(failed_attempts, b)

CountsFromZero ==
    \A a \in Addresses :
        /\ a \in DOMAIN failed_attempts' /\ a \notin DOMAIN failed_attempts
              => failed_attempts'[a] = [attempts |-> 1, last_attempt |-> now]
        /\ a \in DOMAIN failed_attempts' /\ a \in DOMAIN failed_attempts
           /\ failed_attempts'[a] # failed_attempts[a]
              => failed_attempts'[a] = [attempts |-> failed_attempts[a].attempts + 1,
                                        last_attempt |-> now]

C30_LoginRateLimit ==
    /\ [](RefusedWhileLockedOut /\ RemovedWhenLockoutOver /\ ClearedAtOnce
            /\ OtherAddressesUntouched)
    /\ [][CountsFromZero]_vars

\* Address 1 was refused and never cleared, and counts from one failure again
\* after its lockout was over, while the entry of address 2 stands.
C30_Witness ==
    /\ 1 \in audit.refused
    /\ 1 \in DOMAIN failed_attempts
    /\ failed_attempts[1].attempts = 1
    /\ 2 \in DOMAIN failed_attempts
    /\ failed_attempts[2].last_attempt = 0

====
